---- MODULE Spec2Model ----
(***************************************************************************)
(* Model of the EU-additive enrichment cache of core/eu_additives.py:      *)
(* the code normalizer, the staleness predicate, the two cache tiers       *)
(* (L1_CACHE and the eu_additives table), the registry client, the row     *)
(* selector, the Swedish translation step and query_eu_additive.           *)
(*                                                                         *)
(* Python strings are TLA+ strings, taken apart with Len, SubSeq and \o.   *)
(* Python dicts are functions; d.get(k) is Get(d, k).  Whitespace is the   *)
(* blank " " and letters are ASCII.                                        *)
(***************************************************************************)
EXTENDS Integers, Sequences, FiniteSets, TLC

VARIABLES
    L1_CACHE,   \* L1_CACHE: storage key -> record             (line 49)
    db,         \* table eu_additives: e_code -> row           (lines 108-117)
    now,        \* datetime.utcnow(), in whole seconds
    call,       \* the call (or pure function application) made by the last step
    ret,        \* what that call returned
    log,        \* the reads, requests and writes that call made, in order
    calls       \* how many calls of the public functions were made so far

vars == <<L1_CACHE, db, now, call, ret, log, calls>>

-----------------------------------------------------------------------------
(* Strings *)

None == [none |-> TRUE]

Ch(s, i) == SubSeq(s, i, i)

LowerChars == "abcdefghijklmnopqrstuvwxyz"
UpperChars == "ABCDEFGHIJKLMNOPQRSTUVWXYZ"
Digits == "0123456789"

CharsOf(chars) == {Ch(chars, i) : i \in 1..Len(chars)}

IsSpace(c) == c = " "
DigitSet == CharsOf(Digits)
LetterSet == CharsOf(LowerChars) \cup CharsOf(UpperChars)
IsDigit(c) == c \in DigitSet
IsAlpha(c) == c \in LetterSet

\* str.upper() and str.lower() on one character
UpperOf == [c \in CharsOf(LowerChars) |->
               Ch(UpperChars, CHOOSE i \in 1..Len(LowerChars) : Ch(LowerChars, i) = c)]
LowerOf == [c \in CharsOf(UpperChars) |->
               Ch(LowerChars, CHOOSE i \in 1..Len(UpperChars) : Ch(UpperChars, i) = c)]

LowerSet == CharsOf(LowerChars)
UpperSet == CharsOf(UpperChars)

UpperCh(c) == IF c \in LowerSet THEN UpperOf[c] ELSE c
LowerCh(c) == IF c \in UpperSet THEN LowerOf[c] ELSE c

RECURSIVE Upper(_)
Upper(s) == IF s = "" THEN "" ELSE UpperCh(Ch(s, 1)) \o Upper(Tail(s))

RECURSIVE Lower(_)
Lower(s) == IF s = "" THEN "" ELSE LowerCh(Ch(s, 1)) \o Lower(Tail(s))

RECURSIVE LStrip(_)
LStrip(s) == IF s # "" /\ IsSpace(Ch(s, 1)) THEN LStrip(Tail(s)) ELSE s

RECURSIVE RStrip(_)
RStrip(s) ==
    IF s # "" /\ IsSpace(Ch(s, Len(s))) THEN RStrip(SubSeq(s, 1, Len(s) - 1)) ELSE s

\* str.strip()
Strip(s) == RStrip(LStrip(s))

\* s.startswith(p)
StartsWith(s, p) == Len(s) >= Len(p) /\ SubSeq(s, 1, Len(p)) = p

\* p in s
Contains(s, p) == \E i \in 1..(Len(s) - Len(p) + 1) : SubSeq(s, i, i + Len(p) - 1) = p

\* d.get(k, ""), for dicts whose values are strings
Get(d, k) == IF k \in DOMAIN d THEN d[k] ELSE ""

-----------------------------------------------------------------------------
(* E-code utilities *)

\* re.sub(r"[\s-]+", "", s): every run of blanks and hyphens is removed
RECURSIVE RemoveSeparators(_)
RemoveSeparators(s) ==
    IF s = "" THEN ""
    ELSE IF IsSpace(Ch(s, 1)) \/ Ch(s, 1) = "-" THEN RemoveSeparators(Tail(s))
    ELSE Ch(s, 1) \o RemoveSeparators(Tail(s))

\* re.sub(r"[\s-]+", "", s, count=1): only the first run is removed
RECURSIVE RemoveFirstSeparatorRun(_, _)
RemoveFirstSeparatorRun(s, inRun) ==
    IF s = "" THEN ""
    ELSE IF IsSpace(Ch(s, 1)) \/ Ch(s, 1) = "-"
         THEN RemoveFirstSeparatorRun(Tail(s), TRUE)
         ELSE IF inRun THEN s
              ELSE Ch(s, 1) \o RemoveFirstSeparatorRun(Tail(s), FALSE)

normalize_e_code_storage_first_run(s) ==
    IF s = "" THEN ""
    ELSE LET t == RemoveFirstSeparatorRun(Upper(Strip(s)), FALSE)
         IN  IF StartsWith(t, "E") THEN t ELSE "E" \o t

\* A normalizer that never adds the "E"
normalize_e_code_storage_unprefixed(s) ==
    IF s = "" THEN "" ELSE RemoveSeparators(Upper(Strip(s)))

normalize_e_code_storage(s) ==
    IF s = "" THEN ""
    ELSE LET t == RemoveSeparators(Upper(Strip(s)))
         IN  IF StartsWith(t, "E") THEN t ELSE "E" \o t

\* The match of re.search(r"(?i)E\s*[- ]?\s*(\d{3}[A-Z]?)", s) that starts at
\* position i: after the "E", blanks with at most one hyphen among them, then
\* three digits and, greedily, one letter.  "" when there is no match at i.
RECURSIVE SkipSeparators(_, _)
SkipSeparators(s, j) ==
    IF j <= Len(s) /\ (IsSpace(Ch(s, j)) \/ Ch(s, j) = "-")
    THEN SkipSeparators(s, j + 1) ELSE j

CoreAt(s, i) ==
    LET j == SkipSeparators(s, i + 1)
        hyphens == Cardinality({h \in (i + 1)..(j - 1) : Ch(s, h) = "-"})
    IN  IF /\ UpperCh(Ch(s, i)) = "E"
           /\ hyphens <= 1
           /\ j + 2 <= Len(s)
           /\ \A d \in j..(j + 2) : IsDigit(Ch(s, d))
        THEN IF j + 3 <= Len(s) /\ IsAlpha(Ch(s, j + 3))
             THEN SubSeq(s, j, j + 3) ELSE SubSeq(s, j, j + 2)
        ELSE ""

\* group(1) of the leftmost match, "" when re.search finds none
SearchCore(s) ==
    LET hits == {i \in 1..Len(s) : CoreAt(s, i) # ""}
    IN  IF hits = {} THEN ""
        ELSE CoreAt(s, CHOOSE i \in hits : \A h \in hits : i <= h)

\* re.sub(r"\D", "", s)
RECURSIVE DigitsOf(_)
DigitsOf(s) ==
    IF s = "" THEN ""
    ELSE IF IsDigit(Ch(s, 1)) THEN Ch(s, 1) \o DigitsOf(Tail(s))
    ELSE DigitsOf(Tail(s))

ThreeSpellings(core) == <<"E " \o core, "E" \o core, "E-" \o core>>

\* Variants without the fallback to the digits of the input
normalize_e_code_query_variants_no_digits(raw) ==
    IF SearchCore(Upper(Strip(raw))) = "" THEN <<Upper(Strip(raw))>>
    ELSE ThreeSpellings(SearchCore(Upper(Strip(raw))))

normalize_e_code_query_variants(raw) ==
    LET s == Upper(Strip(raw))
        core == SearchCore(s)
    IN  IF core = ""
        THEN IF DigitsOf(s) # "" THEN ThreeSpellings(DigitsOf(s)) ELSE <<s>>
        ELSE ThreeSpellings(core)

\* \w of the regular expressions, on the characters of the model
IsWord(c) == IsDigit(c) \/ IsAlpha(c) \/ c = "_"

\* The text _ECODE_RE = (?i)\bE\s*[- ]?\s*\d{3}[a-z]?\b matches at position i,
\* "" when it does not match there: a word boundary before the "E", the
\* separators, three digits, one letter when a word boundary follows it, and
\* else no letter when a word boundary follows the digits.
ECodeAt(s, i) ==
    LET j == SkipSeparators(s, i + 1)
        hyphens == Cardinality({h \in (i + 1)..(j - 1) : Ch(s, h) = "-"})
        EndsAt(k) == k = Len(s) \/ ~IsWord(Ch(s, k + 1))
    IN  IF /\ UpperCh(Ch(s, i)) = "E"
           /\ (i = 1 \/ ~IsWord(Ch(s, i - 1)))
           /\ hyphens <= 1
           /\ j + 2 <= Len(s)
           /\ \A d \in j..(j + 2) : IsDigit(Ch(s, d))
        THEN IF j + 3 <= Len(s) /\ IsAlpha(Ch(s, j + 3)) /\ EndsAt(j + 3)
             THEN SubSeq(s, i, j + 3)
             ELSE IF EndsAt(j + 2) THEN SubSeq(s, i, j + 2) ELSE ""
        ELSE ""

\* extract_e_code_from_text(text): the leftmost match, storage-normalized
extract_e_code_from_text(text) ==
    LET hits == {i \in 1..Len(text) : ECodeAt(text, i) # ""}
    IN  IF hits = {} THEN ""
        ELSE normalize_e_code_storage(
                 ECodeAt(text, CHOOSE i \in hits : \A h \in hits : i <= h))

-----------------------------------------------------------------------------
(* Time and staleness *)

TTL_DAYS == 180
SecondsPerDay == 86400

\* A value of the updated_at field: what datetime.fromisoformat makes of it.
\*   none   None                     empty  ""
\*   bad    fromisoformat raises     naive  a datetime without UTC offset
\*   aware  a datetime with a UTC offset (subtracting it from utcnow() raises)
\* sec is the instant, in seconds.
Stamp(kind, sec) == [k |-> kind, sec |-> sec]

\* _utcnow(): datetime.utcnow().isoformat(timespec="seconds")
UtcNowIso(clock) == Stamp("naive", clock)

\* A staleness test that counts the day of expiry as expired (>= for >)
IsExpiredInclusive(ts, days, clock) ==
    IF ts.k \in {"none", "empty"} THEN TRUE
    ELSE IF ts.k \in {"bad", "aware"} THEN TRUE
    ELSE clock - ts.sec >= days * SecondsPerDay

\* _is_expired(ts, days) evaluated when utcnow() is clock
IsExpiredDays(ts, days, clock) ==
    IF ts.k \in {"none", "empty"} THEN TRUE
    ELSE IF ts.k \in {"bad", "aware"} THEN TRUE
    ELSE clock - ts.sec > days * SecondsPerDay

\* _is_expired(ts) with the default days=TTL_DAYS
IsExpired(ts, clock) == IsExpiredDays(ts, TTL_DAYS, clock)

-----------------------------------------------------------------------------
(* The durable tier: table eu_additives, a set of rows *)

\* json.dumps(eu_raw) and json.loads(payload_json): the text of a dict of strings
JsonDumps(d) == [json |-> d]
JsonLoads(text) == text.json

\* _row_to_dict(row) for a row that was found
_row_to_dict(row) ==
    [eu_e_code           |-> row.e_code,
     eu_official_name    |-> row.official_name_en,
     eu_function         |-> row.function_en,
     eu_official_name_en |-> row.official_name_en,
     eu_function_en      |-> row.function_en,
     eu_official_name_sv |-> row.name_sv,
     eu_function_sv      |-> row.function_sv,
     eu_policy_item_id   |-> row.policy_item_id,
     eu_raw              |-> JsonLoads(row.payload_json),
     updated_at          |-> row.updated_at]

\* db_get_by_e_code: SELECT ... WHERE e_code=?, fetchone(); None when no row
db_get_by_e_code(table, e_code_storage) ==
    LET found == {r \in table : r.e_code = e_code_storage}
    IN  IF found = {} THEN None ELSE _row_to_dict(CHOOSE r \in found : TRUE)

\* The row db_upsert binds to the INSERT statement
RowOf(eu) ==
    [e_code           |-> eu.eu_e_code,
     official_name_en |-> eu.eu_official_name_en,
     function_en      |-> eu.eu_function_en,
     policy_item_id   |-> eu.eu_policy_item_id,
     payload_json     |-> JsonDumps(eu.eu_raw),
     name_sv          |-> eu.eu_official_name_sv,
     function_sv      |-> eu.eu_function_sv,
     updated_at       |-> eu.updated_at]

\* INSERT OR IGNORE: a row already stored under the code is kept
db_upsert_ignore(table, eu) ==
    IF \E r \in table : r.e_code = eu.eu_e_code THEN table
    ELSE table \cup {RowOf(eu)}

\* An upsert that keeps the stored English name and function where the
\* record leaves them empty
db_upsert_merge(table, eu) ==
    {r \in table : r.e_code # eu.eu_e_code} \cup
    (IF \E r \in table : r.e_code = eu.eu_e_code
     THEN {[RowOf(eu) EXCEPT
               !.official_name_en = IF @ = "" THEN r.official_name_en ELSE @,
               !.function_en      = IF @ = "" THEN r.function_en ELSE @] :
              r \in {q \in table : q.e_code = eu.eu_e_code}}
     ELSE {RowOf(eu)})

\* db_upsert: INSERT ... ON CONFLICT(e_code) DO UPDATE SET every other column
db_upsert(table, eu) ==
    {r \in table : r.e_code # eu.eu_e_code} \cup {RowOf(eu)}

-----------------------------------------------------------------------------
(* Registry client.  A registry reg answers a request for a value whose       *)
(* spelling style is in reg[format] with reg.rows, and fails every other      *)
(* request the way reg.fail says.                                             *)

StyleOf(param, value) ==
    IF param = "additive_name" THEN "name"
    ELSE IF Len(value) >= 2 /\ Ch(value, 2) = " " THEN "space"
    ELSE IF Len(value) >= 2 /\ Ch(value, 2) = "-" THEN "hyphen"
    ELSE "compact"

\* _http_get / _http_get_csv: requests.get(BASE_URL, params={"format": fmt, ...})
\* raised: the transport failed; parses: the body is what the format promises
HttpGet(reg, fmt, param, value) ==
    IF StyleOf(param, value) \in reg[fmt]
    THEN [raised |-> FALSE, status_code |-> 200, parses |-> TRUE, rows |-> reg.rows]
    ELSE CASE reg.fail = "empty"   ->
                [raised |-> FALSE, status_code |-> 200, parses |-> TRUE,  rows |-> <<>>]
           [] reg.fail = "status"  ->
                [raised |-> FALSE, status_code |-> 500, parses |-> TRUE,  rows |-> <<>>]
           [] reg.fail = "garbage" ->
                [raised |-> FALSE, status_code |-> 200, parses |-> FALSE, rows |-> <<>>]
           [] OTHER                ->
                [raised |-> TRUE,  status_code |-> 0,   parses |-> FALSE, rows |-> <<>>]

\* The outcome of the client for a response, the exceptions of the request
\* and of the parser let out
RowsOfUnguarded(resp) ==
    [raised |-> resp.raised \/ (resp.status_code = 200 /\ ~resp.parses),
     rows   |-> IF resp.status_code = 200 /\ resp.parses THEN resp.rows ELSE <<>>]

\* try: ... if resp.status_code != 200: return []; return <parsed rows>
\* except Exception: return []
\* The outcome of the client for a response: whether it raised, and the rows
RowsOf(resp) ==
    [raised |-> FALSE,
     rows   |-> IF resp.raised THEN <<>>
                ELSE IF resp.status_code # 200 THEN <<>>
                ELSE IF ~resp.parses THEN <<>>
                ELSE resp.rows]

\* _api_get_rows_json and _api_get_rows_csv as their callers see them
ApiGetRows(reg, fmt, param, value) == RowsOf(HttpGet(reg, fmt, param, value)).rows

_api_get_rows_json(reg, param, value) == ApiGetRows(reg, "json", param, value)
_api_get_rows_csv(reg, param, value) == ApiGetRows(reg, "csv", param, value)

\* The record of one request in the log: what was asked and how many rows came
Request(fmt, param, value, rows) ==
    [ev |-> "http", fmt |-> fmt, param |-> param, value |-> value,
     nrows |-> Len(rows), rows |-> rows]

-----------------------------------------------------------------------------
(* Row selector *)

\* pick(d, *keys): the first aliased column that is neither missing nor ""
RECURSIVE pick(_, _)
pick(d, keys) ==
    IF keys = <<>> THEN ""
    ELSE IF Get(d, Head(keys)) # "" THEN Get(d, Head(keys))
    ELSE pick(d, Tail(keys))

ecode_keys == <<"additive_e_code", "e_code", "E_number", "e_number", "code">>

\* The (e_norm, t) that _prefer_substance_match attaches to a row
ENormOf(r) == normalize_e_code_storage(pick(r, ecode_keys))
TypeOf(r) == pick(r, <<"additive_type", "type">>)

\* The smallest index of rows in S, 0 when S is empty
FirstOf(S) == IF S = {} THEN 0 ELSE CHOOSE i \in S : \A j \in S : i <= j

\* A selector that takes the first row whatever the rows say
_prefer_first_row(rows, e_code_norm) ==
    IF rows # <<>> THEN rows[1] ELSE None

_prefer_substance_match(rows, e_code_norm) ==
    LET idx == 1..Len(rows)
        exactSub == {i \in idx : /\ ENormOf(rows[i]) # ""
                                 /\ ENormOf(rows[i]) = e_code_norm
                                 /\ Lower(TypeOf(rows[i])) = "substancefad"}
        exact    == {i \in idx : /\ ENormOf(rows[i]) # ""
                                 /\ ENormOf(rows[i]) = e_code_norm}
        anySub   == {i \in idx : Lower(TypeOf(rows[i])) = "substancefad"}
    IN  IF exactSub # {} THEN rows[FirstOf(exactSub)]
        ELSE IF exact # {} THEN rows[FirstOf(exact)]
        ELSE IF anySub # {} THEN rows[FirstOf(anySub)]
        ELSE IF rows # <<>> THEN rows[1] ELSE None

\* A dict is falsy when it is empty; so is None
Falsy(d) == d = None \/ d = <<>>

-----------------------------------------------------------------------------
(* _query_api_and_normalize *)

\* rows = _api_get_rows_json(params); if not rows: rows = _api_get_rows_csv(params)
\* given what the two requests answer: the rows and the requests issued
\* The JSON request made once more after a CSV answer without rows
JsonCsvJson(param, value, viaJson, viaCsv) ==
    IF viaJson # <<>>
    THEN [rows |-> viaJson, reqs |-> <<Request("json", param, value, viaJson)>>]
    ELSE IF viaCsv # <<>>
    THEN [rows |-> viaCsv,  reqs |-> <<Request("json", param, value, viaJson),
                                       Request("csv", param, value, viaCsv)>>]
    ELSE [rows |-> viaCsv,  reqs |-> <<Request("json", param, value, viaJson),
                                       Request("csv", param, value, viaCsv),
                                       Request("json", param, value, viaJson)>>]

\* Both formats requested whatever the first one answers
JsonAndCsv(param, value, viaJson, viaCsv) ==
    [rows |-> IF viaJson # <<>> THEN viaJson ELSE viaCsv,
     reqs |-> <<Request("json", param, value, viaJson),
                Request("csv", param, value, viaCsv)>>]

JsonThenCsv(param, value, viaJson, viaCsv) ==
    IF viaJson # <<>>
    THEN [rows |-> viaJson, reqs |-> <<Request("json", param, value, viaJson)>>]
    ELSE [rows |-> viaCsv,  reqs |-> <<Request("json", param, value, viaJson),
                                       Request("csv", param, value, viaCsv)>>]

GetRows(reg, param, value) ==
    JsonThenCsv(param, value, _api_get_rows_json(reg, param, value),
                              _api_get_rows_csv(reg, param, value))

\* The requests of one variant before those of the variants after it
After(reqs, rest) == [row |-> rest.row, reqs |-> reqs \o rest.reqs]

\* The loop over the query variants, from variant i on: the chosen row (falsy
\* when none) and the requests issued
RECURSIVE FetchByCode(_, _, _)

\* "if chosen_row: break", chosen being what the selector made of variant i
BreakOrNext(reg, variants, i, reqs, chosen) ==
    IF ~Falsy(chosen) THEN [row |-> chosen, reqs |-> reqs]
    ELSE After(reqs, FetchByCode(reg, variants, i + 1))

\* "if rows: chosen_row = _prefer_substance_match(...)", got being the rows of
\* variant i and the requests that brought them
ChooseFrom(reg, variants, i, got) ==
    BreakOrNext(reg, variants, i, got.reqs,
                IF got.rows # <<>>
                THEN _prefer_substance_match(got.rows,
                                             normalize_e_code_storage(variants[i]))
                ELSE None)

FetchByCode(reg, variants, i) ==
    IF i > Len(variants) THEN [row |-> None, reqs |-> <<>>]
    ELSE ChooseFrom(reg, variants, i, GetRows(reg, "additive_e_code", variants[i]))

\* rows[0] whatever the types of the rows
FirstRow(rows, subs) ==
    IF rows = <<>> THEN None ELSE rows[1]

\* subs[0] if subs else rows[0]
FirstSubstance(rows, subs) ==
    IF rows = <<>> THEN None
    ELSE IF subs # {} THEN rows[FirstOf(subs)] ELSE rows[1]

SubstanceRows(rows) ==
    {i \in 1..Len(rows) : Lower(Get(rows[i], "additive_type")) = "substancefad"}

NameChoice(got) ==
    [row |-> FirstSubstance(got.rows, SubstanceRows(got.rows)), reqs |-> got.reqs]

\* The elif name: branch
FetchByName(reg, name) == NameChoice(GetRows(reg, "additive_name", name))

\* The dict built from the chosen row (lines 320-334)
NormalizedRecord(chosen_row, clock) ==
    [eu_e_code           |-> normalize_e_code_storage(pick(chosen_row, ecode_keys)),
     eu_official_name_en |-> pick(chosen_row, <<"additive_name", "name", "Name">>),
     eu_function_en      |-> pick(chosen_row, <<"functional_class", "function", "category">>),
     eu_policy_item_id   |-> pick(chosen_row, <<"policy_item_id", "policy_id", "id">>),
     eu_raw              |-> chosen_row,
     eu_fip_url          |-> pick(chosen_row, <<"fip_url", "url">>),
     updated_at          |-> UtcNowIso(clock)]

\* Lines 314-334: None without a chosen row, else the dict built from it
RecordOf(got, clock) ==
    [eu   |-> IF Falsy(got.row) THEN None ELSE NormalizedRecord(got.row, clock),
     reqs |-> got.reqs]

\* e_code and name are "" for None; the result is [eu, reqs], eu = None for None
_query_api_and_normalize(e_code, name, reg, clock) ==
    RecordOf(IF e_code # ""
             THEN FetchByCode(reg, normalize_e_code_query_variants(e_code), 1)
             ELSE IF name # "" THEN FetchByName(reg, name)
             ELSE [row |-> None, reqs |-> <<>>],
             clock)

-----------------------------------------------------------------------------
(* Swedish enrichment.  llm is the text generation the call meets:           *)
(*   llm.key    GOOGLE_API_KEY is set and the client is constructed          *)
(*   llm.reply  "raise": chain.invoke raises; "garbage": parse_json_strict   *)
(*              raises; "nondict": it returns JSON that is no object;        *)
(*              "json": it returns {"name_sv": ..., "function_sv": ...}      *)

\* Only the empty string and the two tokens taken for placeholders
_is_placeholder_sv_tokens(raw) ==
    Lower(Strip(raw)) \in {"", "namn", "funktion"}

_is_placeholder_sv(raw) ==
    LET s == Lower(Strip(raw))
    IN  \/ s \in {"", "namn", "funktion"}
        \/ Contains(s, "<") \/ Contains(s, ">")
        \/ Contains(s, "svensk") \/ Contains(s, "svenska")

NoSv == [raised |-> FALSE, called |-> FALSE, name_sv |-> "", function_sv |-> ""]

\* A failure of parse_json_strict let out like one of chain.invoke
GeneratedUnparsed(llm) ==
    IF llm.reply \in {"raise", "nondict", "garbage"}
    THEN [NoSv EXCEPT !.raised = TRUE, !.called = TRUE]
    ELSE [raised      |-> FALSE,
          called      |-> TRUE,
          name_sv     |-> IF _is_placeholder_sv(Strip(llm.name_sv))
                          THEN "" ELSE Strip(llm.name_sv),
          function_sv |-> IF _is_placeholder_sv(Strip(llm.function_sv))
                          THEN "" ELSE Strip(llm.function_sv)]

\* Lines 381-397: chain.invoke, parse_json_strict in its try, the two filters
Generated(llm) ==
    IF llm.reply \in {"raise", "nondict"}
    THEN [NoSv EXCEPT !.raised = TRUE, !.called = TRUE]
    ELSE IF llm.reply = "garbage" THEN [NoSv EXCEPT !.called = TRUE]
    ELSE [raised      |-> FALSE,
          called      |-> TRUE,
          name_sv     |-> IF _is_placeholder_sv(Strip(llm.name_sv))
                          THEN "" ELSE Strip(llm.name_sv),
          function_sv |-> IF _is_placeholder_sv(Strip(llm.function_sv))
                          THEN "" ELSE Strip(llm.function_sv)]

\* The generation asked even when there is nothing to translate
_translate_to_sv_unasked(name_en, function_en, llm) ==
    IF ~llm.key THEN NoSv ELSE Generated(llm)

_translate_to_sv(name_en, function_en, llm) ==
    IF ~llm.key \/ (name_en = "" /\ function_en = "") THEN NoSv
    ELSE Generated(llm)

\* The override tables, in insertion order
SWEDISH_NAME_OVERRIDES ==
    <<<<"E903", "Karnaubavax">>,
      <<"E414", "Gummi arabicum (akaciagummi)">>,
      <<"E300", "Askorbinsyra">>,
      <<"E967", "Xylitol (björksocker)">>>>

FUNCTION_SV_MAP ==
    <<<<"Antioxidant", "Antioxidationsmedel">>,
      <<"Glazing agent", "Ytbehandlingsmedel">>,
      <<"Glazing agents", "Ytbehandlingsmedel">>,
      <<"Colour", "Färgämne">>,
      <<"Color", "Färgämne">>,
      <<"Sweetener", "Sötningsmedel">>,
      <<"Stabiliser", "Stabiliseringsmedel">>,
      <<"Stabilizer", "Stabiliseringsmedel">>,
      <<"Thickener", "Förtjockningsmedel">>,
      <<"Emulsifier", "Emulgeringsmedel">>,
      <<"Preservative", "Konserveringsmedel">>,
      <<"Raising agent", "Jäsmedel">>,
      <<"Acidity regulator", "Surhetsreglerande medel">>,
      <<"Anti-caking agent", "Klumpförebyggande medel">>,
      <<"Flavour enhancer", "Smakförstärkare">>,
      <<"Flavouring", "Aromämne">>>>

FUNCTION_OVERRIDES_BY_ECODE_SV ==
    <<<<"E903", "Ytbehandlingsmedel">>,
      <<"E967", "Sötningsmedel">>,
      <<"E300", "Antioxidationsmedel">>,
      <<"E414", "Stabiliserings-/Förtjockningsmedel">>>>

\* table[key] for a table of pairs, "" when the key is not in it
Lookup(table, key) ==
    LET at == {i \in 1..Len(table) : table[i][1] = key}
    IN  IF at = {} THEN "" ELSE table[FirstOf(at)][2]

\* for k, v in FUNCTION_SV_MAP.items(): if k.lower() in func_en.lower(): v; break
RECURSIVE FirstMapped(_, _)
FirstMapped(lowered, i) ==
    IF i > Len(FUNCTION_SV_MAP) THEN ""
    ELSE IF Contains(lowered, Lower(FUNCTION_SV_MAP[i][1])) THEN FUNCTION_SV_MAP[i][2]
    ELSE FirstMapped(lowered, i + 1)

MapFunction(func_en) == FirstMapped(Lower(func_en), 1)

\* The tables applied whatever the Swedish fields hold
_sv_fallbacks_over(eu) ==
    [eu EXCEPT !.eu_official_name_sv =
                   IF Lookup(SWEDISH_NAME_OVERRIDES, eu.eu_e_code) # ""
                   THEN Lookup(SWEDISH_NAME_OVERRIDES, eu.eu_e_code) ELSE @,
               !.eu_function_sv =
                   IF MapFunction(eu.eu_function_en) # ""
                   THEN MapFunction(eu.eu_function_en)
                   ELSE IF Lookup(FUNCTION_OVERRIDES_BY_ECODE_SV, eu.eu_e_code) # ""
                   THEN Lookup(FUNCTION_OVERRIDES_BY_ECODE_SV, eu.eu_e_code) ELSE @]

\* _sv_fallbacks(eu): the dict as it is left
_sv_fallbacks(eu) ==
    LET ecode   == eu.eu_e_code
        func_en == eu.eu_function_en
        name1   == IF _is_placeholder_sv(eu.eu_official_name_sv)
                   THEN "" ELSE eu.eu_official_name_sv
        name2   == IF name1 = "" /\ Lookup(SWEDISH_NAME_OVERRIDES, ecode) # ""
                   THEN Lookup(SWEDISH_NAME_OVERRIDES, ecode) ELSE name1
        fn1     == IF _is_placeholder_sv(eu.eu_function_sv)
                   THEN "" ELSE eu.eu_function_sv
        mapped  == MapFunction(func_en)
        fn2     == IF fn1 = "" /\ func_en # "" /\ mapped # "" THEN mapped ELSE fn1
        fn3     == IF fn2 = "" /\ Lookup(FUNCTION_OVERRIDES_BY_ECODE_SV, ecode) # ""
                   THEN Lookup(FUNCTION_OVERRIDES_BY_ECODE_SV, ecode) ELSE fn2
    IN  [eu EXCEPT !.eu_official_name_sv = name2, !.eu_function_sv = fn3]

-----------------------------------------------------------------------------
(* query_eu_additive *)

\* A cache that is never hit
L1GetNever(l1, key) == None

\* L1_CACHE.get(key)
L1Get(l1, key) == IF key \in DOMAIN l1 THEN l1[key] ELSE None

\* A cache of one entry: storing a record drops every other key
L1SetOnly(l1, key, rec) == [k \in {key} |-> rec]

\* L1_CACHE[key] = rec
L1Set(l1, key, rec) == [k \in DOMAIN l1 \cup {key} |-> IF k = key THEN rec ELSE l1[k]]

\* d.get("updated_at")
StampOf(d) == IF "updated_at" \in DOMAIN d THEN d.updated_at ELSE Stamp("none", 0)

\* "hit and not _is_expired(hit.get("updated_at"))", without the TTL test
UsableAnyAge(hit, clock) == ~Falsy(hit)

\* hit and not _is_expired(hit.get("updated_at"))     (lines 481 and 486)
Usable(hit, clock) == ~Falsy(hit) /\ ~IsExpired(StampOf(hit), clock)

Outcome(value, raised, l1, table, events) ==
    [ret |-> value, raised |-> raised, l1 |-> l1, db |-> table, log |-> events]

\* db_upsert(eu); L1_CACHE[e_store] = eu              (lines 508-509, 532-533)
Store(l1, table, e_store, eu) ==
    [l1  |-> L1Set(l1, e_store, eu),
     db  |-> db_upsert(table, eu),
     log |-> <<[ev |-> "db_upsert", key |-> eu.eu_e_code, rec |-> eu],
               [ev |-> "l1_set", key |-> e_store, rec |-> eu]>>]

\* eu["eu_official_name"] = eu_official_name_en; eu["eu_function"] = eu_function_en
WithAliases(eu) ==
    eu @@ [eu_official_name |-> eu.eu_official_name_en,
           eu_function      |-> eu.eu_function_en]

\* The Swedish fields set from sv, then _sv_fallbacks, then the aliases
WithSv(eu, sv) ==
    [raised |-> sv.raised,
     eu     |-> WithAliases(_sv_fallbacks(eu @@ [eu_official_name_sv |-> sv.name_sv,
                                                 eu_function_sv      |-> sv.function_sv])),
     log    |-> IF sv.called THEN <<[ev |-> "llm"]>> ELSE <<>>]

\* The translation run whether it was asked for or not
CompleteTranslated(eu, translate_sv, llm) ==
    WithSv(eu, _translate_to_sv(eu.eu_official_name_en, eu.eu_function_en, llm))

\* Lines 493-506 and 517-528: the Swedish fields and the English aliases of a
\* fetched record; [raised, eu, log]
Complete(eu, translate_sv, llm) ==
    WithSv(eu, IF translate_sv
               THEN _translate_to_sv(eu.eu_official_name_en, eu.eu_function_en, llm)
               ELSE NoSv)

\* "return eu" after the two writes st
Stored(eu, st, events) == Outcome(eu, FALSE, st.l1, st.db, events \o st.log)

\* Lines 493-511, done being the completed record: an exception of the
\* translation leaves before the writes
StoreByCode(e_store, l1, table, events, done) ==
    IF done.raised THEN Outcome(None, TRUE, l1, table, events \o done.log)
    ELSE Stored(done.eu, Store(l1, table, e_store, done.eu), events \o done.log)

\* A fallback to the stale record when the registry has nothing
NotFoundOrStale(stale, l1, table, events) ==
    Outcome(IF Falsy(stale) THEN None ELSE stale, FALSE, l1, table, events)

\* "return None" (line 512); the stale row that was read is not used
NotFound(stale, l1, table, events) == Outcome(None, FALSE, l1, table, events)

\* Lines 491-512, api being what _query_api_and_normalize returned
AfterFetch(e_store, stale, translate_sv, l1, table, llm, events, api) ==
    IF api.eu = None THEN NotFound(stale, l1, table, events \o api.reqs)
    ELSE StoreByCode(e_store, l1, table, events \o api.reqs,
                     Complete(api.eu, translate_sv, llm))

\* Lines 490-512: the registry is asked; stale is the row that was read and not
\* used (None when there was none), events the log so far
Refetch(e_store, stale, translate_sv, l1, table, reg, llm, clock, events) ==
    AfterFetch(e_store, stale, translate_sv, l1, table, llm, events,
               _query_api_and_normalize(e_store, "", reg, clock))

\* Lines 485-490, row being what db_get_by_e_code returned
ServeFromDurable(e_store, translate_sv, l1, table, reg, llm, clock, events, row) ==
    IF Usable(row, clock)
    THEN Outcome(row, FALSE, L1Set(l1, e_store, row), table,
                 events \o <<[ev |-> "db_get", key |-> e_store, found |-> row],
                             [ev |-> "l1_set", key |-> e_store, rec |-> row]>>)
    ELSE Refetch(e_store, row, translate_sv, l1, table, reg, llm, clock,
                 events \o <<[ev |-> "db_get", key |-> e_store, found |-> row]>>)

\* The L1 hit used only by lookups that do not ask for a translation
ServeFromL1Keyed(e_store, translate_sv, l1, table, reg, llm, clock, hit) ==
    IF Usable(hit, clock) /\ ~translate_sv
    THEN Outcome(hit, FALSE, l1, table,
                 <<[ev |-> "l1_get", key |-> e_store, found |-> hit]>>)
    ELSE ServeFromDurable(e_store, translate_sv, l1, table, reg, llm, clock,
                          <<[ev |-> "l1_get", key |-> e_store, found |-> hit]>>,
                          db_get_by_e_code(table, e_store))

\* Lines 480-485, hit being what L1_CACHE.get returned
ServeFromL1(e_store, translate_sv, l1, table, reg, llm, clock, hit) ==
    IF Usable(hit, clock)
    THEN Outcome(hit, FALSE, l1, table,
                 <<[ev |-> "l1_get", key |-> e_store, found |-> hit]>>)
    ELSE ServeFromDurable(e_store, translate_sv, l1, table, reg, llm, clock,
                          <<[ev |-> "l1_get", key |-> e_store, found |-> hit]>>,
                          db_get_by_e_code(table, e_store))

\* The if e_code: branch (lines 476-512)
QueryByCode(e_code, translate_sv, l1, table, reg, llm, clock) ==
    ServeFromL1(normalize_e_code_storage(e_code), translate_sv, l1, table, reg, llm,
                clock, L1Get(l1, normalize_e_code_storage(e_code)))

\* The two writes whether or not the record has a code
StoreByNameAlways(l1, table, events, done) ==
    IF done.raised THEN Outcome(None, TRUE, l1, table, events \o done.log)
    ELSE Stored(done.eu, Store(l1, table, done.eu.eu_e_code, done.eu),
                events \o done.log)

\* Lines 517-535, done being the completed record: the writes happen only when
\* the record has a code
StoreByName(l1, table, events, done) ==
    IF done.raised THEN Outcome(None, TRUE, l1, table, events \o done.log)
    ELSE IF done.eu.eu_e_code # ""
    THEN Stored(done.eu, Store(l1, table, done.eu.eu_e_code, done.eu),
                events \o done.log)
    ELSE Outcome(done.eu, FALSE, l1, table, events \o done.log)

\* Lines 516-536, api being what _query_api_and_normalize returned
AfterFetchByName(translate_sv, l1, table, llm, api) ==
    IF api.eu = None THEN Outcome(None, FALSE, l1, table, api.reqs)
    ELSE StoreByName(l1, table, api.reqs, Complete(api.eu, translate_sv, llm))

\* The if name: branch (lines 514-536)
QueryByName(name, translate_sv, l1, table, reg, llm, clock) ==
    AfterFetchByName(translate_sv, l1, table, llm,
                     _query_api_and_normalize("", name, reg, clock))

\* query_eu_additive(e_code, name, translate_sv=...); "" stands for None
query_eu_additive(e_code, name, translate_sv, l1, table, reg, llm, clock) ==
    IF e_code # "" THEN QueryByCode(e_code, translate_sv, l1, table, reg, llm, clock)
    ELSE IF name # "" THEN QueryByName(name, translate_sv, l1, table, reg, llm, clock)
    ELSE Outcome(None, FALSE, l1, table, <<>>)

-----------------------------------------------------------------------------
(* enrich_items_with_eu and bulk_refresh_eu_codes *)

\* Every item marked as enriched, whatever the lookup returned
EnrichedItemAlways(it, eu) ==
    [eu_enriched         |-> TRUE,
     eu_source           |-> "EU_API",
     eu_e_code           |-> Get(eu, "eu_e_code"),
     eu_official_name    |-> Get(eu, "eu_official_name"),
     eu_function         |-> Get(eu, "eu_function"),
     eu_policy_item_id   |-> Get(eu, "eu_policy_item_id"),
     eu_official_name_en |-> Get(eu, "eu_official_name_en"),
     eu_function_en      |-> Get(eu, "eu_function_en"),
     eu_official_name_sv |-> Get(eu, "eu_official_name_sv"),
     eu_function_sv      |-> Get(eu, "eu_function_sv")] @@ it

\* The item's own code replaced by the code of the record, or trimmed
EnrichedItemRecoded(it, eu) ==
    IF Falsy(eu)
    THEN [eu_enriched |-> FALSE, eu_source |-> "None",
          e_code |-> Strip(Get(it, "e_code"))] @@ it
    ELSE [e_code |-> Get(eu, "eu_e_code")] @@ EnrichedItemAlways(it, eu)

\* Lines 558-571: the item with the fields of the lookup's result attached
EnrichedItem(it, eu) ==
    IF Falsy(eu)
    THEN [eu_enriched |-> FALSE, eu_source |-> "None"] @@ it
    ELSE LET base == [eu_enriched         |-> TRUE,
                      eu_source           |-> "EU_API",
                      eu_e_code           |-> Get(eu, "eu_e_code"),
                      eu_official_name    |-> Get(eu, "eu_official_name"),
                      eu_function         |-> Get(eu, "eu_function"),
                      eu_policy_item_id   |-> Get(eu, "eu_policy_item_id"),
                      eu_official_name_en |-> Get(eu, "eu_official_name_en"),
                      eu_function_en      |-> Get(eu, "eu_function_en"),
                      eu_official_name_sv |-> Get(eu, "eu_official_name_sv"),
                      eu_function_sv      |-> Get(eu, "eu_function_sv")] @@ it
         IN  IF Get(eu, "eu_fip_url") # ""
             THEN [eu_fip_url |-> eu.eu_fip_url] @@ base
             ELSE base

\* The log notes where the work on item i begins ...
ItemEvent(i) == [ev |-> "item", i |-> i]

\* ... and what the lookup for an item returned
LookupEvent(eu) == [ev |-> "lookup", ret |-> eu]

\* The loop of enrich_items_with_eu from item i on; out is the list so far.
\* An exception of a lookup ends the loop with the caches as they then are.
RECURSIVE EnrichLoop(_, _, _, _, _, _, _, _, _, _)

\* Lines 556-574, o being the outcome of the lookup for item i
EnrichWith(items, i, out, translate_sv, reg, llm, clock, events, o) ==
    IF o.raised THEN Outcome(None, TRUE, o.l1, o.db, events \o o.log)
    ELSE EnrichLoop(items, i + 1, Append(out, EnrichedItem(items[i], o.ret)),
                    translate_sv, o.l1, o.db, reg, llm, clock,
                    Append(events \o o.log, LookupEvent(o.ret)))

\* The lookup given the ingredient as it stands in the item, blanks and all
EnrichByRawName(items, i, out, translate_sv, l1, table, reg, llm, clock, events, name, e_code) ==
    EnrichWith(items, i, out, translate_sv, reg, llm, clock, events,
               query_eu_additive(e_code,
                                 IF e_code # "" THEN "" ELSE Get(items[i], "ingredient"),
                                 translate_sv, l1, table, reg, llm, clock))

\* The lookup by the name whenever the item has one, by the code otherwise
EnrichByNameFirst(items, i, out, translate_sv, l1, table, reg, llm, clock, events, name, e_code) ==
    EnrichWith(items, i, out, translate_sv, reg, llm, clock, events,
               query_eu_additive(IF name # "" THEN "" ELSE e_code, name,
                                 translate_sv, l1, table, reg, llm, clock))

\* Lines 551-556: the code given, else the code found in the name, else the name
EnrichBy(items, i, out, translate_sv, l1, table, reg, llm, clock, events, name, e_code) ==
    EnrichWith(items, i, out, translate_sv, reg, llm, clock, events,
               query_eu_additive(e_code, IF e_code # "" THEN "" ELSE name,
                                 translate_sv, l1, table, reg, llm, clock))

EnrichItem(items, i, out, translate_sv, l1, table, reg, llm, clock, events, name, given) ==
    EnrichBy(items, i, out, translate_sv, l1, table, reg, llm, clock, events, name,
             IF given # "" THEN given ELSE extract_e_code_from_text(name))

\* The loop without the test for source == "PDF"
EnrichLoopNoPdf(items, i, out, translate_sv, l1, table, reg, llm, clock, events) ==
    IF i > Len(items) THEN Outcome(out, FALSE, l1, table, events)
    ELSE EnrichItem(items, i, out, translate_sv, l1, table, reg, llm, clock,
                    Append(events, ItemEvent(i)),
                    Strip(Get(items[i], "ingredient")), Strip(Get(items[i], "e_code")))

EnrichLoop(items, i, out, translate_sv, l1, table, reg, llm, clock, events) ==
    IF i > Len(items) THEN Outcome(out, FALSE, l1, table, events)
    ELSE IF Get(items[i], "source") = "PDF"
    THEN EnrichLoop(items, i + 1, Append(out, items[i]), translate_sv,
                    l1, table, reg, llm, clock, Append(events, ItemEvent(i)))
    ELSE EnrichItem(items, i, out, translate_sv, l1, table, reg, llm, clock,
                    Append(events, ItemEvent(i)),
                    Strip(Get(items[i], "ingredient")), Strip(Get(items[i], "e_code")))

\* enrich_items_with_eu(items, translate_sv)
enrich_items_with_eu(items, translate_sv, l1, table, reg, llm, clock) ==
    EnrichLoop(items, 1, <<>>, translate_sv, l1, table, reg, llm, clock, <<>>)

\* The loop of bulk_refresh_eu_codes from code i on; ok counts the records
RECURSIVE BulkLoop(_, _, _, _, _, _, _, _, _, _)

\* Every code counted, whatever its lookup returned
BulkWithAll(codes, i, ok, translate_sv, reg, llm, clock, events, o) ==
    IF o.raised THEN Outcome(None, TRUE, o.l1, o.db, events \o o.log)
    ELSE BulkLoop(codes, i + 1, ok + 1,
                  translate_sv, o.l1, o.db, reg, llm, clock,
                  Append(events \o o.log, LookupEvent(o.ret)))

\* "if eu: ok += 1", o being the outcome of the lookup for code i
BulkWith(codes, i, ok, translate_sv, reg, llm, clock, events, o) ==
    IF o.raised THEN Outcome(None, TRUE, o.l1, o.db, events \o o.log)
    ELSE BulkLoop(codes, i + 1, IF Falsy(o.ret) THEN ok ELSE ok + 1,
                  translate_sv, o.l1, o.db, reg, llm, clock,
                  Append(events \o o.log, LookupEvent(o.ret)))

BulkLoop(codes, i, ok, translate_sv, l1, table, reg, llm, clock, events) ==
    IF i > Len(codes) THEN Outcome(ok, FALSE, l1, table, events)
    ELSE BulkWith(codes, i, ok, translate_sv, reg, llm, clock,
                  Append(events, ItemEvent(i)),
                  query_eu_additive(normalize_e_code_storage(codes[i]), "",
                                    translate_sv, l1, table, reg, llm, clock))

\* bulk_refresh_eu_codes(codes, translate_sv); init_db() creates no row
bulk_refresh_eu_codes(codes, translate_sv, l1, table, reg, llm, clock) ==
    BulkLoop(codes, 1, 0, translate_sv, l1, table, reg, llm, clock, <<>>)

-----------------------------------------------------------------------------
(* The worlds the calls meet and the inputs they are given *)

MaxCalls == 2          \* calls of the public functions in one behaviour
MaxTtlPeriods == 1     \* the clock runs to MaxTtlPeriods * TTL_DAYS days ...
MaxOddSeconds == 1     \* ... plus MaxOddSeconds seconds

RowA == [additive_e_code  |-> "E 300",
         additive_type    |-> "substanceFAD",
         additive_name    |-> "Ascorbic acid",
         functional_class |-> "Antioxidant",
         policy_item_id   |-> "P300",
         fip_url          |-> "fip/300"]

RowB == [e_code   |-> "e301",
         type     |-> "other",
         name     |-> "Sodium ascorbate",
         function |-> "antioxidants"]

RowNoCode == [additive_type |-> "SubstanceFAD",
              additive_name |-> "Wax"]

\* A row without columns: the JSON object {} (_extract_rows_from_json gives [{}])
RowEmpty == <<>>

RowLists == {<<RowA>>, <<RowB, RowA>>, <<RowNoCode>>}

CodeStyles == {"space", "compact", "hyphen"}

Registry(json, csv, rows, fail) ==
    [json |-> json, csv |-> csv, rows |-> rows, fail |-> fail]

\* Registries that are down, however they fail
DownRegistries == {Registry({}, {}, <<>>, f) : f \in {"status", "raise", "garbage"}}

\* Registries that answer some spellings of a code, in one format or the other
CodeRegistries ==
    {Registry(CodeStyles, {}, rows, "empty") : rows \in RowLists} \cup
    {Registry({"hyphen"}, {"compact"}, rows, "status") : rows \in RowLists} \cup
    {Registry({"space"}, {}, <<RowEmpty>>, "empty")}

\* Registries that answer a query by name
NameRegistries ==
    {Registry({"name"}, {}, rows, "empty") : rows \in RowLists} \cup
    {Registry({}, {"name"}, <<RowB, [additive_name |-> "Wax"]>>, "empty")}

Llm(key, reply, name_sv, function_sv) ==
    [key |-> key, reply |-> reply, name_sv |-> name_sv, function_sv |-> function_sv]

NoLlm == Llm(FALSE, "raise", "", "")

LlmWorlds ==
    {Llm(TRUE, "raise", "", ""),
     Llm(TRUE, "json", " Askorbat ", "<funktion>")}

\* (translate_sv, llm): translation asked for or not, with and without a
\* credential for the text generation
Translations == BOOLEAN \X ({NoLlm} \cup LlmWorlds)

CodeInputs == {"e-300", "301"}
NameInputs == {"ascorb"}

\* Registries that answer codes and names alike
MixedRegistries ==
    {Registry(CodeStyles \cup {"name"}, {}, <<RowA>>, "empty"),
     Registry({"name"}, {"compact"}, <<RowB, RowA>>, "status"),
     Registry({"name"}, {}, <<RowA>>, "empty")}

ItemPdf  == [source |-> "PDF", ingredient |-> "E300", e_code |-> "E300",
             category |-> "additive", risk |-> "low"]
ItemCode == [source |-> "OCR", ingredient |-> "vitamin c", e_code |-> " e-300 ",
             category |-> "additive", risk |-> "unknown"]
ItemText == [source |-> "OCR", ingredient |-> " color (E 301) ", e_code |-> ""]
ItemName == [source |-> "", ingredient |-> "ascorb", e_code |-> ""]

\* An item with neither a code nor a name
ItemBlank == [source |-> "OCR", ingredient |-> "  ", e_code |-> " "]

ItemLists == {<<ItemPdf, ItemText>>, <<ItemCode, ItemName>>, <<ItemBlank, ItemCode, ItemPdf>>}
CodeLists == {<<"e-300", "301">>, <<"", "E 300", "e300">>}

-----------------------------------------------------------------------------
(* The state machine *)

Raised == [raised |-> TRUE]

Init ==
    /\ L1_CACHE = <<>>
    /\ db = {}
    /\ now = 0
    /\ call = [op |-> "init"]
    /\ ret = None
    /\ log = <<>>
    /\ calls = 0

\* A call c of a public function with the outcome o: the caches as the call
\* left them, what it returned or that it raised, and what it did
Called(c, o, value) ==
    /\ calls < MaxCalls
    /\ calls' = calls + 1
    /\ L1_CACHE' = o.l1
    /\ db' = o.db
    /\ ret' = IF o.raised THEN Raised ELSE value
    /\ log' = IF o.raised THEN Append(o.log, [ev |-> "raised"]) ELSE o.log
    /\ call' = c
    /\ UNCHANGED now

Returned(c, o) == Called(c, o, o.ret)

\* One call of query_eu_additive
Query(e_code, name, translate_sv, reg, llm) ==
    Returned([op |-> "query_eu_additive", e_code |-> e_code, name |-> name,
              translate_sv |-> translate_sv],
             query_eu_additive(e_code, name, translate_sv, L1_CACHE, db, reg, llm, now))

LookupByCode ==
    \E e_code \in CodeInputs, reg \in DownRegistries \cup CodeRegistries,
       tr \in Translations :
        Query(e_code, "", tr[1], reg, tr[2])

LookupByName ==
    \E name \in NameInputs, reg \in DownRegistries \cup NameRegistries,
       tr \in Translations :
        Query("", name, tr[1], reg, tr[2])

\* One call of enrich_items_with_eu
Enrich ==
    \E items \in ItemLists, reg \in DownRegistries \cup MixedRegistries,
       tr \in Translations :
        Returned([op |-> "enrich_items_with_eu", items |-> items,
                  translate_sv |-> tr[1]],
                 enrich_items_with_eu(items, tr[1], L1_CACHE, db, reg, tr[2], now))

\* One call of bulk_refresh_eu_codes
BulkRefresh ==
    \E codes \in CodeLists, reg \in DownRegistries \cup MixedRegistries,
       tr \in Translations :
        Returned([op |-> "bulk_refresh_eu_codes", codes |-> codes,
                  translate_sv |-> tr[1]],
                 bulk_refresh_eu_codes(codes, tr[1], L1_CACHE, db, reg, tr[2], now))

\* Time passes: a second, or a whole TTL
Tick ==
    \E d \in {1, TTL_DAYS * SecondsPerDay} :
        /\ now + d <= MaxTtlPeriods * TTL_DAYS * SecondsPerDay + MaxOddSeconds
        /\ (d = 1 => (now % (TTL_DAYS * SecondsPerDay)) < MaxOddSeconds)
        /\ now' = now + d
        /\ call' = [op |-> "tick"]
        /\ ret' = None
        /\ log' = <<>>
        /\ UNCHANGED <<L1_CACHE, db, calls>>

\* The process ends and a new one starts: L1_CACHE is the empty dict again
Restart ==
    /\ L1_CACHE' = <<>>
    /\ call' = [op |-> "restart"]
    /\ ret' = None
    /\ log' = <<>>
    /\ UNCHANGED <<db, now, calls>>

Next == LookupByCode \/ LookupByName \/ Enrich \/ BulkRefresh \/ Tick \/ Restart

Spec == Init /\ [][Next]_vars

-----------------------------------------------------------------------------
(* normalize_e_code_storage applied, and applied again to its own result *)

MaxLen == 4
NormAlphabet == {"E", "e", "3", "a", " ", "-"}

RECURSIVE StringsUpTo(_)
StringsUpTo(n) ==
    IF n = 0 THEN {""}
    ELSE LET shorter == StringsUpTo(n - 1)
         IN  shorter \cup {s \o c : s \in shorter, c \in NormAlphabet}

\* Three spellings of one code
SpellingsOf250 == {"e 250", "E-250", "250"}

NormInit ==
    /\ call \in {[op |-> "normalize_e_code_storage", s |-> x] :
                     x \in StringsUpTo(MaxLen) \cup SpellingsOf250}
    /\ log = <<>>
    /\ ret = None
    /\ L1_CACHE = <<>> /\ db = {} /\ now = 0 /\ calls = 0

\* log[1] = normalize_e_code_storage(s), log[2] = normalize_e_code_storage(log[1])
NormApply ==
    /\ call.op = "normalize_e_code_storage"
    /\ Len(log) < 2
    /\ log' = Append(log, normalize_e_code_storage(IF log = <<>> THEN call.s
                                                   ELSE log[Len(log)]))
    /\ UNCHANGED <<L1_CACHE, db, now, call, ret, calls>>

SpecNorm == NormInit /\ [][NormApply]_vars

-----------------------------------------------------------------------------
(* normalize_e_code_query_variants applied to one input *)

\* Inputs with a letter after the digits, with separators, without "E"
VariantExtras == {"E250", "e - 250b", " E--250", "x250a", "12", "E1234", "2 5"}

VariantsInit ==
    /\ call \in {[op |-> "normalize_e_code_query_variants", s |-> x] :
                     x \in StringsUpTo(MaxLen) \cup VariantExtras}
    /\ log = <<>>
    /\ ret = None
    /\ L1_CACHE = <<>> /\ db = {} /\ now = 0 /\ calls = 0

VariantsApply ==
    /\ call.op = "normalize_e_code_query_variants"
    /\ log = <<>>
    /\ log' = <<normalize_e_code_query_variants(call.s)>>
    /\ UNCHANGED <<L1_CACHE, db, now, call, ret, calls>>

SpecVariants == VariantsInit /\ [][VariantsApply]_vars

-----------------------------------------------------------------------------
(* _api_get_rows_json / _api_get_rows_csv applied to one request *)

ClientRegistries ==
    DownRegistries \cup CodeRegistries \cup NameRegistries \cup MixedRegistries

ClientRequests ==
    {<<"additive_e_code", v>> : v \in {"E 300", "E300", "E-300", "E 301"}} \cup
    {<<"additive_name", n>> : n \in NameInputs}

ClientInit ==
    /\ call \in {[op |-> "_api_get_rows", fmt |-> f, param |-> q[1], value |-> q[2],
                  reg |-> reg] :
                     f \in {"json", "csv"}, q \in ClientRequests, reg \in ClientRegistries}
    /\ log = <<>>
    /\ ret = None
    /\ L1_CACHE = <<>> /\ db = {} /\ now = 0 /\ calls = 0

ClientApply ==
    /\ call.op = "_api_get_rows"
    /\ log = <<>>
    /\ log' = <<RowsOf(HttpGet(call.reg, call.fmt, call.param, call.value))>>
    /\ UNCHANGED <<L1_CACHE, db, now, call, ret, calls>>

SpecClient == ClientInit /\ [][ClientApply]_vars

-----------------------------------------------------------------------------
(* _prefer_substance_match applied to one list of rows *)

MaxRows == 3           \* rows in one answer of the registry

\* Rows with and without a code and a type, under different column aliases
SelectorRows ==
    {c @@ t : c \in {<<>>, [additive_e_code |-> "e-300"], [code |-> "E 301"]},
              t \in {<<>>, [additive_type |-> "other"], [type |-> "SubstanceFAD"]}}

RECURSIVE RowsUpTo(_)
RowsUpTo(n) ==
    IF n = 0 THEN {<<>>}
    ELSE RowsUpTo(n - 1) \cup
         {<<r>> \o rs : r \in SelectorRows, rs \in {q \in RowsUpTo(n - 1) : Len(q) = n - 1}}

\* The codes the fetch loop asks the selector for: normalized variants
SelectorCodes == {normalize_e_code_storage(v) : v \in {"E 300", "E-301"}}

SelectorInit ==
    /\ call \in {[op |-> "_prefer_substance_match", rows |-> rows, e_code_norm |-> e] :
                     rows \in RowsUpTo(MaxRows), e \in SelectorCodes}
    /\ log = <<>>
    /\ ret = None
    /\ L1_CACHE = <<>> /\ db = {} /\ now = 0 /\ calls = 0

SelectorApply ==
    /\ call.op = "_prefer_substance_match"
    /\ log = <<>>
    /\ log' = <<_prefer_substance_match(call.rows, call.e_code_norm)>>
    /\ UNCHANGED <<L1_CACHE, db, now, call, ret, calls>>

SpecSelector == SelectorInit /\ [][SelectorApply]_vars

-----------------------------------------------------------------------------
(* _translate_to_sv and _sv_fallbacks applied to one fetched record, as       *)
(* lines 494-502 apply them                                                   *)

\* Records with and without a code of the override tables, a name and a
\* function; text generations without a credential, failing in each way, and
\* answering with values the filters keep and values they drop
SwedishInit ==
    /\ call \in {[op |-> "_translate_to_sv", eu |-> eu, llm |-> llm] :
                    eu \in {[eu_e_code |-> c, eu_official_name_en |-> n,
                             eu_function_en |-> f, eu_policy_item_id |-> "",
                             eu_raw |-> <<>>, eu_fip_url |-> "",
                             updated_at |-> UtcNowIso(0)] :
                               c \in {"E300", "E903", "E999", ""},
                               n \in {"", "Wax"},
                               f \in {"", "Colour, ANTIOXIDANT", "Carrier",
                                      "Glazing agents"}},
                    llm \in {NoLlm} \cup
                            {Llm(TRUE, r, "", "") : r \in {"raise", "nondict", "garbage"}} \cup
                            {Llm(TRUE, "json", n, f) :
                               n \in {"", " Vax ", "<namn>", "Namn", "vax (Svenska)"},
                               f \in {"", "funktion", " Bärare", "a > b"}}}
    /\ log = <<>>
    /\ ret = None
    /\ L1_CACHE = <<>> /\ db = {} /\ now = 0 /\ calls = 0

\* What _translate_to_sv gave and, unless it raised, the record as lines
\* 495-506 leave it
SwedishApply ==
    /\ call.op = "_translate_to_sv"
    /\ log = <<>>
    /\ log' = IF Complete(call.eu, TRUE, call.llm).raised
              THEN <<_translate_to_sv(call.eu.eu_official_name_en,
                                      call.eu.eu_function_en, call.llm)>>
              ELSE <<_translate_to_sv(call.eu.eu_official_name_en,
                                      call.eu.eu_function_en, call.llm),
                     Complete(call.eu, TRUE, call.llm).eu>>
    /\ UNCHANGED <<L1_CACHE, db, now, call, ret, calls>>

SpecSwedish == SwedishInit /\ [][SwedishApply]_vars

-----------------------------------------------------------------------------
(* _is_expired applied to one updated_at value at one instant *)

MaxAgeDays == 181
StampKinds == {"none", "empty", "bad", "naive", "aware"}

ExpiredInit ==
    /\ call \in {[op |-> "_is_expired", ts |-> Stamp(k, sec)] :
                    k \in StampKinds, sec \in {0, SecondsPerDay}}
    /\ now \in {d * SecondsPerDay + odd : d \in 0..MaxAgeDays, odd \in 0..MaxOddSeconds}
    /\ log = <<>>
    /\ ret = None
    /\ L1_CACHE = <<>> /\ db = {} /\ calls = 0

ExpiredApply ==
    /\ call.op = "_is_expired"
    /\ log = <<>>
    /\ log' = <<IsExpired(call.ts, now)>>
    /\ UNCHANGED <<L1_CACHE, db, now, call, ret, calls>>

SpecExpired == ExpiredInit /\ [][ExpiredApply]_vars

-----------------------------------------------------------------------------
(* db_upsert applied to a sequence of records; log is the sequence *)

MaxUpserts == 3

RowA2 == [additive_e_code |-> "e-300", additive_name |-> "Vitamin C"]

UpsertRecords ==
    {Complete(NormalizedRecord(row, t), FALSE, NoLlm).eu :
        row \in {RowA, RowA2, RowB, RowNoCode}, t \in {0, 1}}

UpsertInit ==
    /\ db = {}
    /\ log = <<>>
    /\ call = [op |-> "db_upsert"]
    /\ ret = None
    /\ L1_CACHE = <<>> /\ now = 0 /\ calls = 0

Upsert ==
    \E eu \in UpsertRecords :
        /\ call.op = "db_upsert"
        /\ Len(log) < MaxUpserts
        /\ db' = db_upsert(db, eu)
        /\ log' = Append(log, eu)
        /\ UNCHANGED <<L1_CACHE, now, call, ret, calls>>

SpecUpsert == UpsertInit /\ [][Upsert]_vars

-----------------------------------------------------------------------------
(* Concurrent calls of db_upsert, each in its own connection.  A writer runs  *)
(* its one statement under the write lock of the database file and holds the  *)
(* lock until conn.commit(); a writer that finds the lock taken waits, or     *)
(* gives up with "database is locked" when the wait times out.                *)

MaxWriters == 3

ConcurrentInit ==
    /\ call \in {[op |-> "db_upsert_concurrent", lock |-> 0,
                  writers |-> [w \in 1..n |-> [eu |-> eus[w], pc |-> "start"]]] :
                     n \in {MaxWriters}, eus \in [1..MaxWriters -> UpsertRecords]}
    /\ db = {}
    /\ log = <<>>
    /\ ret = None
    /\ L1_CACHE = <<>> /\ now = 0 /\ calls = 0

\* c.execute("INSERT ... ON CONFLICT ..."): the statement takes the write lock
Execute(w) ==
    /\ call.op = "db_upsert_concurrent"
    /\ call.writers[w].pc = "start"
    /\ call.lock = 0
    /\ call' = [call EXCEPT !.lock = w, !.writers[w].pc = "executed"]
    /\ UNCHANGED <<L1_CACHE, db, now, ret, log, calls>>

\* conn.commit(): the row becomes the table's row and the lock is released
Commit(w) ==
    /\ call.op = "db_upsert_concurrent"
    /\ call.writers[w].pc = "executed"
    /\ db' = db_upsert(db, call.writers[w].eu)
    /\ log' = Append(log, call.writers[w].eu)
    /\ call' = [call EXCEPT !.lock = 0, !.writers[w].pc = "done"]
    /\ UNCHANGED <<L1_CACHE, now, ret, calls>>

\* sqlite3.OperationalError: database is locked
Busy(w) ==
    /\ call.op = "db_upsert_concurrent"
    /\ call.writers[w].pc = "start"
    /\ call.lock \notin {0, w}
    /\ call' = [call EXCEPT !.writers[w].pc = "failed"]
    /\ UNCHANGED <<L1_CACHE, db, now, ret, log, calls>>

SpecConcurrent ==
    ConcurrentInit /\ [][\E w \in 1..MaxWriters : Execute(w) \/ Commit(w) \/ Busy(w)]_vars

-----------------------------------------------------------------------------
(* Two lookups of one code in two threads of one process: L1_CACHE and the
   table are shared, and the statements of query_eu_additive interleave *)

\* The tiers hold nothing for the code, or a record that is stale; thread t
\* asks for a translation or not
RaceInit ==
    /\ \E old \in {Complete(NormalizedRecord(RowA, 0), FALSE, NoLlm).eu} :
          \/ db = {} /\ L1_CACHE = <<>> /\ now = 0
          \/ /\ db = db_upsert({}, old)
             /\ L1_CACHE \in {<<>>, L1Set(<<>>, "E300", old)}
             /\ now = TTL_DAYS * SecondsPerDay + 1
    /\ call \in {[op |-> "query_concurrent", e_code |-> "e-300", reg |-> reg, llm |-> llm,
                  threads |-> [t \in 1..2 |-> [pc |-> "start", translate_sv |-> tr[t],
                                               eu |-> None]]] :
                    reg \in {Registry(CodeStyles, {}, <<RowA>>, "empty"),
                             Registry({}, {}, <<>>, "status")},
                    llm \in {NoLlm} \cup LlmWorlds,
                    tr \in [1..2 -> BOOLEAN]}
    /\ ret = None
    /\ log = <<>>
    /\ calls = 0

\* hit = L1_CACHE.get(e_store); a usable hit is returned   (lines 480-482)
ReadL1(t) ==
    /\ call.op = "query_concurrent"
    /\ call.threads[t].pc = "start"
    /\ call' = IF Usable(L1Get(L1_CACHE, normalize_e_code_storage(call.e_code)), now)
               THEN [call EXCEPT !.threads[t].pc = "done",
                                 !.threads[t].eu =
                                     L1Get(L1_CACHE, normalize_e_code_storage(call.e_code))]
               ELSE [call EXCEPT !.threads[t].pc = "missed"]
    /\ UNCHANGED <<L1_CACHE, db, now, ret, log, calls>>

\* row = db_get_by_e_code(e_store): a usable row goes to L1 and is returned;
\* else the fetch, which takes d seconds, and the completion of the record
\* (lines 485-506); an exception of the translation ends the thread
ReadDurable(t) ==
    /\ call.op = "query_concurrent"
    /\ call.threads[t].pc = "missed"
    /\ IF Usable(db_get_by_e_code(db, normalize_e_code_storage(call.e_code)), now)
       THEN /\ L1_CACHE' = L1Set(L1_CACHE, normalize_e_code_storage(call.e_code),
                                 db_get_by_e_code(db, normalize_e_code_storage(call.e_code)))
            /\ call' = [call EXCEPT !.threads[t].pc = "done",
                                    !.threads[t].eu =
                                        db_get_by_e_code(db, normalize_e_code_storage(call.e_code))]
            /\ UNCHANGED now
       ELSE \E d \in {0, 1} :
              /\ now' = now + d
              /\ L1_CACHE' = L1_CACHE
              /\ call' =
                   IF _query_api_and_normalize(normalize_e_code_storage(call.e_code), "",
                                               call.reg, now + d).eu = None
                   THEN [call EXCEPT !.threads[t].pc = "done"]
                   ELSE IF Complete(_query_api_and_normalize(
                                        normalize_e_code_storage(call.e_code), "",
                                        call.reg, now + d).eu,
                                    call.threads[t].translate_sv, call.llm).raised
                   THEN [call EXCEPT !.threads[t].pc = "raised"]
                   ELSE [call EXCEPT !.threads[t].pc = "fetched",
                                     !.threads[t].eu =
                                         Complete(_query_api_and_normalize(
                                                      normalize_e_code_storage(call.e_code), "",
                                                      call.reg, now + d).eu,
                                                  call.threads[t].translate_sv, call.llm).eu]
    /\ UNCHANGED <<db, ret, log, calls>>

\* db_upsert(eu)                                            (line 508)
WriteDurable(t) ==
    /\ call.op = "query_concurrent"
    /\ call.threads[t].pc = "fetched"
    /\ db' = db_upsert(db, call.threads[t].eu)
    /\ call' = [call EXCEPT !.threads[t].pc = "upserted"]
    /\ UNCHANGED <<L1_CACHE, now, ret, log, calls>>

\* L1_CACHE[e_store] = eu; return eu                        (lines 509-511)
WriteL1(t) ==
    /\ call.op = "query_concurrent"
    /\ call.threads[t].pc = "upserted"
    /\ L1_CACHE' = L1Set(L1_CACHE, normalize_e_code_storage(call.e_code), call.threads[t].eu)
    /\ call' = [call EXCEPT !.threads[t].pc = "done"]
    /\ UNCHANGED <<db, now, ret, log, calls>>

SpecRace ==
    RaceInit /\ [][\E t \in 1..2 : ReadL1(t) \/ ReadDurable(t) \/ WriteDurable(t) \/ WriteL1(t)]_vars

-----------------------------------------------------------------------------
(* Vocabulary of the properties *)

TtlSeconds == TTL_DAYS * SecondsPerDay

\* A record (a dict), as opposed to None and to a raised exception
IsRecord(x) == "eu_e_code" \in DOMAIN x

\* An updated_at value that is present, parses, and is at most TTL old
FreshStamp(ts, clock) == ts.k = "naive" /\ clock - ts.sec <= TtlSeconds

\* The last step was query_eu_additive with a code
ByCode(c) == c.op = "query_eu_additive" /\ c.e_code # ""

KeyOf(c) == normalize_e_code_storage(c.e_code)

Events(l, kind) == {i \in 1..Len(l) : l[i].ev = kind}

RowsUnder(table, key) == {r \in table : r.e_code = key}

\* The dict rec carries the columns of the table row r
SameColumns(rec, r) ==
    /\ IsRecord(rec)
    /\ rec.eu_e_code = r.e_code
    /\ rec.eu_official_name_en = r.official_name_en
    /\ rec.eu_function_en = r.function_en
    /\ rec.eu_policy_item_id = r.policy_item_id
    /\ rec.eu_raw = r.payload_json.json
    /\ rec.eu_official_name_sv = r.name_sv
    /\ rec.eu_function_sv = r.function_sv
    /\ rec.updated_at = r.updated_at

\* A canonical code: non-empty, upper-case, no blank, no hyphen, prefixed "E"
Canonical(key) ==
    /\ key # ""
    /\ Upper(key) = key
    /\ ~Contains(key, " ")
    /\ ~Contains(key, "-")
    /\ StartsWith(key, "E")

\* Every request of the call returned no rows, and there was one
RefetchFailed(l) ==
    /\ Events(l, "http") # {}
    /\ \A i \in Events(l, "http") : l[i].nrows = 0

-----------------------------------------------------------------------------
(* The read path *)

\* C1: a lookup by code returns the fresh L1 record without reading the
\* durable tier or asking the registry; else copies the fresh durable row into
\* L1 under the same key and returns it without asking the registry; and asks
\* the registry when neither tier holds a fresh record.
C1_ReadPath ==
    [][ByCode(call') =>
        LET key     == KeyOf(call')
            l1Fresh == key \in DOMAIN L1_CACHE
                       /\ FreshStamp(L1_CACHE[key].updated_at, now)
            dbFresh == {r \in RowsUnder(db, key) : FreshStamp(r.updated_at, now)}
        IN  IF l1Fresh
            THEN /\ ret' = L1_CACHE[key]
                 /\ Events(log', "db_get") = {}
                 /\ Events(log', "http") = {}
            ELSE IF dbFresh # {}
            THEN /\ \E r \in dbFresh : SameColumns(ret', r)
                 /\ key \in DOMAIN L1_CACHE'
                 /\ L1_CACHE'[key] = ret'
                 /\ db' = db
                 /\ Events(log', "http") = {}
            ELSE Events(log', "http") # {}]_vars

\* A lookup by code was served from the durable tier, which filled L1
C1_Witness ==
    /\ ByCode(call)
    /\ Len(log) = 3
    /\ log[1].found = None
    /\ log[3].ev = "l1_set"
    /\ IsRecord(ret)
    /\ L1_CACHE[KeyOf(call)] = ret

\* C2: a lookup by code never returns a record that is stale when it returns.
C2_NeverStale ==
    (ByCode(call) /\ IsRecord(ret)) => FreshStamp(ret.updated_at, now)

\* Both tiers held a stale record for the code and the lookup refetched
C2_Witness ==
    /\ ByCode(call)
    /\ IsRecord(ret)
    /\ Len(log) >= 3
    /\ IsRecord(log[1].found) /\ ~FreshStamp(log[1].found.updated_at, now)
    /\ IsRecord(log[2].found) /\ ~FreshStamp(log[2].found.updated_at, now)
    /\ log[3].ev = "http"

-----------------------------------------------------------------------------
(* The staleness predicate *)

\* C3, as claimed: _is_expired reports stale exactly when updated_at is absent,
\* is not a parseable ISO timestamp, or lies more than 180 days before now.
C3_Claimed ==
    (call.op = "_is_expired" /\ Len(log) = 1) =>
        (log[1] <=> \/ call.ts.k \in {"none", "empty"}
                    \/ call.ts.k = "bad"
                    \/ now - call.ts.sec > TtlSeconds)

\* C3, amended: _is_expired reports stale exactly when updated_at is absent or
\* empty, is not a parseable ISO timestamp, parses to a timestamp that carries
\* a UTC offset, or lies more than 180 days before now; so 180 days + 1 second
\* is stale, and 180 days and 179 days are fresh.
C3_Expired ==
    (call.op = "_is_expired" /\ Len(log) = 1) =>
        (log[1] <=> \/ call.ts.k \in {"none", "empty"}
                    \/ call.ts.k = "bad"
                    \/ call.ts.k = "aware"
                    \/ now - call.ts.sec > TtlSeconds)

\* A timestamp 180 days and one second old was reported stale
C3_Witness ==
    /\ call.op = "_is_expired"
    /\ call.ts.k = "naive"
    /\ now - call.ts.sec = TtlSeconds + 1
    /\ log = <<TRUE>>

-----------------------------------------------------------------------------
(* The write path *)

\* C4: every cache write of a lookup writes the durable tier first and then L1,
\* with the identical record under the same canonical key, and L1 is written
\* only with a record the durable tier holds.
C4_WriteOrder ==
    (call.op = "query_eu_additive") =>
        \A i \in 1..Len(log) :
            /\ log[i].ev = "db_upsert" =>
                  /\ i < Len(log)
                  /\ log[i + 1].ev = "l1_set"
                  /\ log[i + 1].rec = log[i].rec
                  /\ log[i + 1].key = log[i].key
                  /\ Canonical(log[i].key)
            /\ log[i].ev = "l1_set" =>
                  /\ i > 1
                  /\ \/ log[i - 1].ev = "db_upsert"
                     \/ log[i - 1].ev = "db_get" /\ log[i - 1].found = log[i].rec

\* C5: when a lookup by code finds no fresh record and the fetch succeeds, the
\* durable row under the normalized code is the new record, stamped now.
C5_Refreshed ==
    (ByCode(call) /\ Events(log, "http") # {} /\ IsRecord(ret)) =>
        \E r \in RowsUnder(db, KeyOf(call)) :
            /\ SameColumns(ret, r)
            /\ r.updated_at = Stamp("naive", now)

\* C6: when a lookup by code finds only a stale record and every request of
\* the refetch returns no rows, it returns None and leaves both tiers as they
\* were.
C6_StaleNotServed ==
    [][(/\ ByCode(call')
        /\ RefetchFailed(log')
        /\ \/ KeyOf(call') \in DOMAIN L1_CACHE
           \/ RowsUnder(db, KeyOf(call')) # {})
       => /\ ret' = None
          /\ L1_CACHE' = L1_CACHE
          /\ db' = db]_vars

\* The refetch of a code failed while both tiers held its stale record
C6_Witness ==
    /\ ByCode(call)
    /\ RefetchFailed(log)
    /\ ret = None
    /\ KeyOf(call) \in DOMAIN L1_CACHE
    /\ ~FreshStamp(L1_CACHE[KeyOf(call)].updated_at, now)
    /\ \E r \in RowsUnder(db, KeyOf(call)) : ~FreshStamp(r.updated_at, now)

\* C7: after any sequence of upserts the table holds one row for each code
\* upserted and no other, with the columns of the last record upserted under
\* that code; so upserting a record twice leaves its one row.
C7_UpsertIdempotent ==
    (call.op = "db_upsert") =>
        /\ \A i \in 1..Len(log) :
              (\A j \in (i + 1)..Len(log) : log[j].eu_e_code # log[i].eu_e_code)
              => /\ Cardinality(RowsUnder(db, log[i].eu_e_code)) = 1
                 /\ \A r \in RowsUnder(db, log[i].eu_e_code) : SameColumns(log[i], r)
        /\ Cardinality(db) = Cardinality({log[i].eu_e_code : i \in 1..Len(log)})

\* The same record was upserted twice in a row and the table holds one row
C7_Witness ==
    /\ call.op = "db_upsert"
    /\ Len(log) = 2
    /\ log[1] = log[2]
    /\ Cardinality(db) = 1

\* C8: every key of L1 and of the durable tier is a canonical code and is the
\* code field of the record stored under it.
C8_CanonicalKeys ==
    /\ \A key \in DOMAIN L1_CACHE :
          Canonical(key) /\ L1_CACHE[key].eu_e_code = key
    /\ \A r \in db : Canonical(r.e_code)

\* C9: no call of the subsystem (lookup by code or by name, enrichment, bulk
\* refresh) removes a key from L1 or from the durable tier, and a stored record
\* stays as it is until a call writes that key; in the durable tier, after a
\* request that brought rows.
C9_NeverDeleted ==
    [][call'.op # "restart" =>
        /\ DOMAIN L1_CACHE \subseteq DOMAIN L1_CACHE'
        /\ {r.e_code : r \in db} \subseteq {r.e_code : r \in db'}
        /\ \A key \in DOMAIN L1_CACHE :
              L1_CACHE'[key] # L1_CACHE[key] =>
                  \E i \in Events(log', "l1_set") : log'[i].key = key
        /\ \A r \in db :
              r \notin db' =>
                  \E i \in Events(log', "db_upsert") :
                      /\ log'[i].key = r.e_code
                      /\ \E j \in Events(log', "http") : j < i /\ log'[j].nrows > 0]_vars

\* A second code was stored while the stale record of the first stayed
C9_Witness ==
    /\ call.op \in {"query_eu_additive", "enrich_items_with_eu", "bulk_refresh_eu_codes"}
    /\ Cardinality(DOMAIN L1_CACHE) >= 2
    /\ Cardinality(db) >= 2
    /\ \E r \in db : ~FreshStamp(r.updated_at, now)
    /\ \E key \in DOMAIN L1_CACHE : ~FreshStamp(L1_CACHE[key].updated_at, now)

-----------------------------------------------------------------------------
(* The normalizer *)

\* C10: normalize_e_code_storage is idempotent on every non-empty input.
C10_NormalizeIdempotent ==
    (call.op = "normalize_e_code_storage" /\ call.s # "" /\ Len(log) = 2)
        => log[2] = log[1]

\* A lower-case spelling with a blank and a hyphen and no "E" was normalized twice
C10_Witness ==
    /\ call.op = "normalize_e_code_storage"
    /\ call.s = " 3-a"
    /\ log = <<"E3A", "E3A">>

\* The positions of s that hold neither a blank nor a hyphen, and the k-th of them
KeptPositions(s) == {i \in 1..Len(s) : Ch(s, i) \notin {" ", "-"}}
KeptPosition(s, k) ==
    CHOOSE i \in KeptPositions(s) : Cardinality({j \in KeptPositions(s) : j <= i}) = k

-----------------------------------------------------------------------------
(* The query variants *)

\* C12, as claimed: an input that holds three digits in a row gives the three
\* spellings "E NNN", "ENNN", "E-NNN" of such a core (with the letter that
\* follows it, if any); any other non-empty input gives the raw input alone.
C12_Claimed ==
    (call.op = "normalize_e_code_query_variants" /\ Len(log) = 1) =>
        LET x     == call.s
            u     == Upper(x)
            spans == {p \in (1..Len(u)) \X (1..Len(u)) : p[2] \in {p[1] + 2, p[1] + 3}}
            cores == {c \in {SubSeq(u, p[1], p[2]) : p \in spans} :
                         /\ Len(c) >= 3
                         /\ \A d \in 1..3 : IsDigit(Ch(c, d))
                         /\ Len(c) = 4 => IsAlpha(Ch(c, 4))}
        IN  IF cores # {}
            THEN \E c \in cores : log[1] = <<"E " \o c, "E" \o c, "E-" \o c>>
            ELSE x # "" => log[1] = <<x>>

\* C12, amended: with u the input trimmed and upper-cased, when u holds an "E",
\* then blanks with at most one hyphen among them, then three digits, the result
\* is "E NNN", "ENNN", "E-NNN" for the core NNN of the leftmost such place (the
\* three digits and the letter that follows them, if any); else, when u holds a
\* digit, it is "E D", "ED", "E-D" for the string D of all digits of u; else it
\* is u alone.
C12_Variants ==
    (call.op = "normalize_e_code_query_variants" /\ Len(log) = 1) =>
        LET u      == Upper(Strip(call.s))
            Places == {p \in (1..Len(u)) \X (1..Len(u)) :
                          /\ p[1] < p[2]
                          /\ Ch(u, p[1]) = "E"
                          /\ \A h \in (p[1] + 1)..(p[2] - 1) : Ch(u, h) \in {" ", "-"}
                          /\ Cardinality({h \in (p[1] + 1)..(p[2] - 1) : Ch(u, h) = "-"}) <= 1
                          /\ p[2] + 2 <= Len(u)
                          /\ \A d \in p[2]..(p[2] + 2) : IsDigit(Ch(u, d))}
            first  == CHOOSE p \in Places : \A q \in Places : p[1] <= q[1]
            core   == IF first[2] + 3 <= Len(u) /\ IsAlpha(Ch(u, first[2] + 3))
                      THEN SubSeq(u, first[2], first[2] + 3)
                      ELSE SubSeq(u, first[2], first[2] + 2)
            at     == {i \in 1..Len(u) : IsDigit(Ch(u, i))}
            nth(k) == CHOOSE i \in at : Cardinality({j \in at : j <= i}) = k
        IN  IF Places # {}
            THEN log[1] = <<"E " \o core, "E" \o core, "E-" \o core>>
            ELSE IF at # {}
            THEN /\ Len(log[1]) = 3
                 /\ LET D == SubSeq(log[1][2], 2, Len(log[1][2]))
                    IN  /\ Len(D) = Cardinality(at)
                        /\ \A k \in 1..Len(D) : Ch(D, k) = Ch(u, nth(k))
                        /\ log[1] = <<"E " \o D, "E" \o D, "E-" \o D>>
            ELSE log[1] = <<u>>

\* A spelling with separators and a letter gave the three spellings of its core
C12_Witness ==
    /\ call.op = "normalize_e_code_query_variants"
    /\ call.s = "e - 250b"
    /\ log = <<<<"E 250B", "E250B", "E-250B">>>>

-----------------------------------------------------------------------------
(* The requests of a lookup by code *)

IsHttp(e) == e.ev = "http"

\* The registry requests of the last call, in the order they were issued
Requests(l) == SelectSeq(l, IsHttp)

\* The place of the spelling v among the variants V
PlaceOf(V, v) == CHOOSE j \in 1..Len(V) : V[j] = v

\* The request h is the one the loop makes first for the variant after that
\* of request g
NextVariant(V, g, h) ==
    /\ PlaceOf(V, g.value) < Len(V)
    /\ h.fmt = "json"
    /\ h.value = V[PlaceOf(V, g.value) + 1]

NothingWritten(l) == Events(l, "db_upsert") = {} /\ Events(l, "l1_set") = {}

\* C13, as claimed: after a miss the requests go through the variants in
\* order, JSON first and CSV for the same variant only after a JSON answer
\* without rows; an answer with rows is the last request; and when no answer
\* has rows the lookup returns none and writes to neither tier.
C13_Claimed ==
    (ByCode(call) /\ Requests(log) # <<>>) =>
        LET V == normalize_e_code_query_variants(KeyOf(call))
            H == Requests(log)
        IN  /\ \A k \in 1..Len(H) :
                    H[k].param = "additive_e_code" /\ \E j \in 1..Len(V) : V[j] = H[k].value
            /\ H[1].fmt = "json" /\ H[1].value = V[1]
            /\ \A k \in 1..(Len(H) - 1) :
                    /\ H[k].nrows = 0
                    /\ IF H[k].fmt = "json"
                       THEN H[k + 1].fmt = "csv" /\ H[k + 1].value = H[k].value
                       ELSE NextVariant(V, H[k], H[k + 1])
            /\ H[Len(H)].nrows = 0 =>
                    H[Len(H)].fmt = "csv" /\ H[Len(H)].value = V[Len(V)]
            /\ (\A k \in 1..Len(H) : H[k].nrows = 0) =>
                    ret = None /\ NothingWritten(log)

\* The answer h ends the loop: the row the selector picks from it has a column
Yielded(h) ==
    /\ h.rows # <<>>
    /\ ~Falsy(_prefer_substance_match(h.rows, normalize_e_code_storage(h.value)))

\* C13, amended: as claimed, except that an answer ends the loop only when the
\* row the selector picks from its rows has at least one column; an answer
\* whose pick is a row without columns gets no CSV request and the next variant
\* is tried; when no answer ends the loop the lookup returns none and writes to
\* neither tier.
C13_FetchOrder ==
    (ByCode(call) /\ Requests(log) # <<>>) =>
        LET V == normalize_e_code_query_variants(KeyOf(call))
            H == Requests(log)
        IN  /\ \A k \in 1..Len(H) :
                    H[k].param = "additive_e_code" /\ \E j \in 1..Len(V) : V[j] = H[k].value
            /\ H[1].fmt = "json" /\ H[1].value = V[1]
            /\ \A k \in 1..(Len(H) - 1) :
                    /\ ~Yielded(H[k])
                    /\ IF H[k].fmt = "json" /\ H[k].nrows = 0
                       THEN H[k + 1].fmt = "csv" /\ H[k + 1].value = H[k].value
                       ELSE NextVariant(V, H[k], H[k + 1])
            /\ ~Yielded(H[Len(H)]) =>
                    /\ H[Len(H)].fmt = "csv" \/ H[Len(H)].nrows > 0
                    /\ H[Len(H)].value = V[Len(V)]
            /\ (\A k \in 1..Len(H) : ~Yielded(H[k])) =>
                    ret = None /\ NothingWritten(log)

\* The first spelling had no rows in either format and the second had rows in
\* CSV only: four requests, the last one a CSV answer with rows
C13_Witness ==
    /\ ByCode(call)
    /\ Len(Requests(log)) = 4
    /\ Requests(log)[3].fmt = "json" /\ Requests(log)[3].nrows = 0
    /\ Requests(log)[4].fmt = "csv" /\ Requests(log)[4].nrows > 0
    /\ IsRecord(ret)

-----------------------------------------------------------------------------
(* The registry client *)

\* The request of the call is one the registry does not answer
Unanswered(c) == StyleOf(c.param, c.value) \notin c.reg[c.fmt]

\* C14: _api_get_rows_json and _api_get_rows_csv never raise; on a non-success
\* status, a transport failure or a body that does not parse they return the
\* empty row sequence, and the registry's rows when the request is answered.
C14_NeverRaises ==
    (call.op = "_api_get_rows" /\ Len(log) = 1) =>
        /\ ~log[1].raised
        /\ Unanswered(call) => log[1].rows = <<>>
        /\ ~Unanswered(call) => log[1].rows = call.reg.rows

\* A request whose transport failed came back as no rows
C14_Witness ==
    /\ call.op = "_api_get_rows"
    /\ call.reg.fail = "raise"
    /\ Unanswered(call)
    /\ Len(log) = 1
    /\ ~log[1].raised /\ log[1].rows = <<>>

-----------------------------------------------------------------------------
(* The row selector *)

\* The priority class of a row for the wanted code: 1 code and type, 2 code,
\* 3 type, 4 neither
Priority(r, wanted) ==
    LET code == normalize_e_code_storage(pick(r, ecode_keys)) = wanted
        sub  == Lower(pick(r, <<"additive_type", "type">>)) = "substancefad"
    IN  IF code /\ sub THEN 1 ELSE IF code THEN 2 ELSE IF sub THEN 3 ELSE 4

\* C15: the selector returns the first row of the best priority class present
\* (code and substanceFAD type, then code, then substanceFAD type, then any
\* row), and none exactly when there are no rows.
C15_Priority ==
    (call.op = "_prefer_substance_match" /\ Len(log) = 1) =>
        LET rows == call.rows
            w    == call.e_code_norm
        IN  /\ (log[1] = None) <=> (rows = <<>>)
            /\ rows # <<>> =>
                 \E i \in 1..Len(rows) :
                    /\ log[1] = rows[i]
                    /\ \A j \in 1..Len(rows) :
                          \/ Priority(rows[j], w) > Priority(rows[i], w)
                          \/ Priority(rows[j], w) = Priority(rows[i], w) /\ i <= j

\* Two rows with the wanted code, the second of substanceFAD type: the second
C15_Witness ==
    /\ call.op = "_prefer_substance_match"
    /\ call.e_code_norm = "E300"
    /\ call.rows = <<[additive_e_code |-> "e-300"] @@ [additive_type |-> "other"],
                     [additive_e_code |-> "e-300"] @@ [type |-> "SubstanceFAD"]>>
    /\ log = <<call.rows[2]>>

-----------------------------------------------------------------------------
(* Enrichment of items *)

\* The last step was enrich_items_with_eu
ByEnrich(c) == c.op = "enrich_items_with_eu"

\* The call of the last step ended in an exception
Raising(l) == Events(l, "raised") # {}

\* The work on item i began, and where in the log
Started(l, i) == \E k \in 1..Len(l) : l[k] = ItemEvent(i)
StartOf(l, i) == CHOOSE k \in 1..Len(l) : l[k] = ItemEvent(i)

\* The places of the log that belong to the work on item i
ItemSpan(l, i) ==
    {k \in 1..Len(l) : /\ k > StartOf(l, i)
                       /\ Started(l, i + 1) => k < StartOf(l, i + 1)}

IsPdf(it) == Get(it, "source") = "PDF"

\* The fields of a record that enrichment mirrors into the item
Mirrored ==
    {"eu_e_code", "eu_official_name_en", "eu_function_en", "eu_policy_item_id",
     "eu_official_name_sv", "eu_function_sv"}

\* The item as enrichment leaves it when nothing was found
Unenriched(it) == [eu_enriched |-> FALSE, eu_source |-> "None"] @@ it

\* C16: an item whose source is "PDF" causes no cache read or write and no
\* registry or translation request, and is returned as it was given.
C16_PdfUnchanged ==
    ByEnrich(call) =>
        \A i \in 1..Len(call.items) :
            (IsPdf(call.items[i]) /\ Started(log, i)) =>
                /\ ItemSpan(log, i) = {}
                /\ ~Raising(log) => ret[i] = call.items[i]

\* A PDF item came back unchanged after an item before it was enriched
C16_Witness ==
    /\ ByEnrich(call)
    /\ ~Raising(log)
    /\ Len(call.items) = 3
    /\ IsPdf(call.items[3])
    /\ ret[2].eu_enriched
    /\ ret[3] = call.items[3]

\* C17: in a call that returned, an item whose source is not "PDF" carries
\* eu_enriched = TRUE, eu_source = "EU_API" and the mirrored fields of the
\* record when its lookup returned a record, and otherwise eu_enriched = FALSE,
\* eu_source = "None" and no other new field; its own fields stay as they were.
C17_Enriched ==
    (ByEnrich(call) /\ ~Raising(log)) =>
        \A i \in 1..Len(call.items) :
            ~IsPdf(call.items[i]) =>
                \E k \in ItemSpan(log, i) :
                    /\ log[k].ev = "lookup"
                    /\ \A f \in DOMAIN call.items[i] : ret[i][f] = call.items[i][f]
                    /\ IF IsRecord(log[k].ret)
                       THEN /\ ret[i].eu_enriched = TRUE
                            /\ ret[i].eu_source = "EU_API"
                            /\ \A f \in Mirrored : ret[i][f] = log[k].ret[f]
                       ELSE /\ log[k].ret = None
                            /\ ret[i] = Unenriched(call.items[i])

\* One call in which one item was enriched and another was not
C17_Witness ==
    /\ ByEnrich(call)
    /\ ~Raising(log)
    /\ Len(call.items) = 2
    /\ ~IsPdf(call.items[1]) /\ ~IsPdf(call.items[2])
    /\ ret[1].eu_enriched /\ ret[1].eu_e_code = "E300"
    /\ ~ret[2].eu_enriched /\ ret[2].eu_source = "None"

\* C18: enrich_items_with_eu never ends in an exception, whatever the registry
\* and the text generation do.
C18_NeverRaises == ByEnrich(call) => ~Raising(log)

\* C19: enrich_items_with_eu returns one item per item given, in the order
\* given, each with its own fields, whatever happened to the other items.
C19_OnePerItem ==
    ByEnrich(call) =>
        /\ ~Raising(log)
        /\ Len(ret) = Len(call.items)
        /\ \A i \in 1..Len(call.items) :
              \A f \in DOMAIN call.items[i] : ret[i][f] = call.items[i][f]

\* The item has neither a code nor a name
IsBlank(it) ==
    Strip(Get(it, "e_code")) = "" /\ Strip(Get(it, "ingredient")) = ""

\* C20: for an item that is not from the PDF and has neither a code nor a name
\* the lookup returns none without reading or writing a cache and without any
\* request; the loop goes on to the next item, and in a call that returned the
\* item is marked as not enriched.
C20_BlankItem ==
    ByEnrich(call) =>
        \A i \in 1..Len(call.items) :
            (~IsPdf(call.items[i]) /\ IsBlank(call.items[i]) /\ Started(log, i)) =>
                /\ \A k \in ItemSpan(log, i) : log[k] = LookupEvent(None)
                /\ Cardinality(ItemSpan(log, i)) = 1
                /\ i < Len(call.items) => Started(log, i + 1)
                /\ ~Raising(log) => ret[i] = Unenriched(call.items[i])

\* A blank item came back marked as not enriched, the item after it enriched
C20_Witness ==
    /\ ByEnrich(call)
    /\ ~Raising(log)
    /\ IsBlank(call.items[1])
    /\ ret[1] = Unenriched(call.items[1])
    /\ ret[2].eu_enriched

-----------------------------------------------------------------------------
(* Bulk refresh *)

\* The last step was bulk_refresh_eu_codes
ByBulk(c) == c.op = "bulk_refresh_eu_codes"

\* The places in the span of entry i where the log has an event of the kind
SpanEvents(l, i, kind) == {k \in ItemSpan(l, i) : l[k].ev = kind}

\* The lookup for entry i read a fresh record from a cache tier
ReadFresh(l, i, clock) ==
    \E k \in SpanEvents(l, i, "l1_get") \cup SpanEvents(l, i, "db_get") :
        IsRecord(l[k].found) /\ FreshStamp(l[k].found.updated_at, clock)

\* The lookup for entry i returned a record
Resolved(l, i) == \E k \in SpanEvents(l, i, "lookup") : IsRecord(l[k].ret)

\* C21: a bulk refresh that returns gives the number of entries whose lookup
\* returned a record, between 0 and the number of entries; an entry whose
\* record is fresh in a cache tier is counted without a registry request.
C21_BulkCount ==
    (ByBulk(call) /\ ~Raising(log)) =>
        /\ ret = Cardinality({i \in 1..Len(call.codes) : Resolved(log, i)})
        /\ 0 <= ret /\ ret <= Len(call.codes)
        /\ \A i \in 1..Len(call.codes) :
              ReadFresh(log, i, now) =>
                  Resolved(log, i) /\ SpanEvents(log, i, "http") = {}

\* Three entries of which two resolved, the last one from a cache tier
C21_Witness ==
    /\ ByBulk(call)
    /\ ~Raising(log)
    /\ Len(call.codes) = 3
    /\ ret = 2
    /\ ~Resolved(log, 1)
    /\ ReadFresh(log, 3, now)

-----------------------------------------------------------------------------
(* The fields enrichment writes *)

\* The keys that lines 558-573 assign
EuFields ==
    Mirrored \cup {"eu_enriched", "eu_source", "eu_official_name", "eu_function",
                   "eu_fip_url"}

\* C22: in an enrich call that returned, every field an item was given has the
\* value it was given; a PDF item has no other field, and any other item has
\* no other field than enrichment fields.
C22_Frame ==
    (ByEnrich(call) /\ ~Raising(log)) =>
        \A i \in 1..Len(call.items) :
            /\ DOMAIN call.items[i] \subseteq DOMAIN ret[i]
            /\ \A f \in DOMAIN call.items[i] : ret[i][f] = call.items[i][f]
            /\ (DOMAIN ret[i] \ DOMAIN call.items[i]) \subseteq
                   (IF IsPdf(call.items[i]) THEN {} ELSE EuFields)

\* An enriched item kept its untrimmed code, its category and its risk
C22_Witness ==
    /\ ByEnrich(call)
    /\ ~Raising(log)
    /\ call.items[1] = ItemCode
    /\ ret[1].eu_enriched
    /\ ret[1].e_code = " e-300 " /\ ret[1].eu_e_code = "E300"
    /\ ret[1].category = "additive" /\ ret[1].risk = "unknown"

-----------------------------------------------------------------------------
(* Swedish enrichment *)

\* The last step was _translate_to_sv, and what it gave
BySwedish(c) == c.op = "_translate_to_sv"

BothEmpty(sv) == sv.name_sv = "" /\ sv.function_sv = ""

\* C23: without a generation credential, or with both English values empty,
\* _translate_to_sv returns both fields empty and the text generation is not
\* called.
C23_NoGeneration ==
    (BySwedish(call) /\ Len(log) >= 1) =>
        ((~call.llm.key
          \/ (call.eu.eu_official_name_en = "" /\ call.eu.eu_function_en = "")) =>
            ~log[1].called /\ ~log[1].raised /\ BothEmpty(log[1]))

\* A credential is set and the generation would answer, but there is nothing
\* to translate
C23_Witness ==
    /\ BySwedish(call)
    /\ Len(log) >= 1
    /\ call.llm.key /\ call.llm.reply = "json" /\ call.llm.name_sv = " Vax "
    /\ call.eu.eu_official_name_en = "" /\ call.eu.eu_function_en = ""
    /\ ~log[1].called /\ BothEmpty(log[1])


\* The name and the function that the override tables hold for a code
NameOverride(code) ==
    CASE code = "E903" -> "Karnaubavax"
      [] code = "E414" -> "Gummi arabicum (akaciagummi)"
      [] code = "E300" -> "Askorbinsyra"
      [] code = "E967" -> "Xylitol (björksocker)"
      [] OTHER -> ""

FunctionOverride(code) ==
    CASE code = "E903" -> "Ytbehandlingsmedel"
      [] code = "E967" -> "Sötningsmedel"
      [] code = "E300" -> "Antioxidationsmedel"
      [] code = "E414" -> "Stabiliserings-/Förtjockningsmedel"
      [] OTHER -> ""

\* The text generation was called and its answer is no JSON
Unparsable(c) ==
    /\ c.llm.key /\ c.llm.reply = "garbage"
    /\ ~(c.eu.eu_official_name_en = "" /\ c.eu.eu_function_en = "")

\* C24: when the answer of the text generation cannot be coerced to JSON,
\* _translate_to_sv returns both fields empty and does not raise, and the
\* record then gets its name from the override table of names and, when it
\* has no English function, its function from the override table of functions.
C24_Unparsable ==
    (BySwedish(call) /\ Len(log) >= 1 /\ Unparsable(call)) =>
        /\ log[1].called /\ ~log[1].raised /\ BothEmpty(log[1])
        /\ Len(log) = 2
        /\ log[2].eu_official_name_sv = NameOverride(call.eu.eu_e_code)
        /\ call.eu.eu_function_en = "" =>
               log[2].eu_function_sv = FunctionOverride(call.eu.eu_e_code)

\* An unparsable answer for E903: empty translation, name from the table
C24_Witness ==
    /\ BySwedish(call)
    /\ Unparsable(call)
    /\ call.eu.eu_e_code = "E903"
    /\ Len(log) = 2
    /\ BothEmpty(log[1])
    /\ log[2].eu_official_name_sv = "Karnaubavax"


\* A value no Swedish field may carry: a placeholder token, an angle bracket,
\* or the word for Swedish
Junk(v) ==
    \/ Lower(Strip(v)) \in {"namn", "funktion"}
    \/ \E i \in 1..Len(v) : Ch(v, i) \in {"<", ">"}
    \/ \E i \in 1..Len(v) : i + 5 <= Len(v) /\ Lower(SubSeq(v, i, i + 5)) = "svensk"

\* What the filter leaves of a generated value
Kept(v) == IF Junk(Strip(v)) THEN "" ELSE Strip(v)

\* C25: of an answer of the text generation, _translate_to_sv keeps each
\* trimmed value unless it is a placeholder token, has an angle bracket or has
\* the word for Swedish, and gives the empty string in its place; the Swedish
\* fields of the record that is then stored never hold such a value.
C25_Filtered ==
    (BySwedish(call) /\ Len(log) >= 1) =>
        /\ (log[1].called /\ call.llm.reply = "json") =>
              /\ log[1].name_sv = Kept(call.llm.name_sv)
              /\ log[1].function_sv = Kept(call.llm.function_sv)
        /\ ~Junk(log[1].name_sv) /\ ~Junk(log[1].function_sv)
        /\ Len(log) = 2 =>
              ~Junk(log[2].eu_official_name_sv) /\ ~Junk(log[2].eu_function_sv)

\* The answer {"name_sv": "<namn>", "function_sv": ""} left both fields empty
C25_Witness ==
    /\ BySwedish(call)
    /\ Len(log) = 2
    /\ log[1].called
    /\ call.llm.name_sv = "<namn>" /\ call.llm.function_sv = ""
    /\ BothEmpty(log[1])
    /\ call.eu.eu_e_code = "E999"
    /\ log[2].eu_official_name_sv = ""


\* The entries of FUNCTION_SV_MAP whose key occurs in the English function,
\* whatever the case of the letters
Matching(func_en) ==
    {i \in 1..Len(FUNCTION_SV_MAP) :
        \E j \in 1..Len(func_en) :
            /\ j + Len(FUNCTION_SV_MAP[i][1]) - 1 <= Len(func_en)
            /\ Lower(SubSeq(func_en, j, j + Len(FUNCTION_SV_MAP[i][1]) - 1))
                   = Lower(FUNCTION_SV_MAP[i][1])}

\* C26: the fallback keeps a Swedish value the filter accepted; an empty name
\* becomes the name of the code in the table of names; an empty function
\* becomes the value of the first entry, in insertion order, of the function
\* map whose key occurs in the English function, and without such an entry
\* the function of the code in the table of functions.
C26_Fallback ==
    (BySwedish(call) /\ Len(log) = 2) =>
        /\ log[2].eu_official_name_sv =
               IF log[1].name_sv # "" THEN log[1].name_sv
               ELSE NameOverride(call.eu.eu_e_code)
        /\ log[2].eu_function_sv =
               IF log[1].function_sv # "" THEN log[1].function_sv
               ELSE IF Matching(call.eu.eu_function_en) # {}
               THEN FUNCTION_SV_MAP[CHOOSE i \in Matching(call.eu.eu_function_en) :
                        \A j \in Matching(call.eu.eu_function_en) : i <= j][2]
               ELSE FunctionOverride(call.eu.eu_e_code)

\* E903 without a credential: the name from the table; and for a function
\* that two keys occur in, the key that was inserted first
C26_Witness ==
    /\ BySwedish(call)
    /\ Len(log) = 2
    /\ ~call.llm.key
    /\ call.eu.eu_e_code = "E903"
    /\ call.eu.eu_function_en = "Colour, ANTIOXIDANT"
    /\ log[2].eu_official_name_sv = "Karnaubavax"
    /\ log[2].eu_function_sv = "Antioxidationsmedel"

-----------------------------------------------------------------------------
(* The Swedish fields of the records a lookup builds *)

\* The last step was query_eu_additive
ByQuery(c) == c.op = "query_eu_additive"

\* The answer h of the registry gave _query_api_and_normalize a row to build
\* a record from
GaveRow(h) ==
    IF h.param = "additive_e_code" THEN Yielded(h)
    ELSE /\ h.rows # <<>>
         /\ \/ h.rows[1] # <<>>
            \/ \E i \in 1..Len(h.rows) :
                   Lower(Get(h.rows[i], "additive_type")) = "substancefad"

\* The lookup built a record from a live fetch
Built(l) == \E k \in Events(l, "http") : GaveRow(l[k])

\* Nothing is left in the record for the fallback to fill or to drop
Filled(rec) ==
    /\ ~Junk(rec.eu_official_name_sv) /\ ~Junk(rec.eu_function_sv)
    /\ rec.eu_official_name_sv = "" => NameOverride(rec.eu_e_code) = ""
    /\ rec.eu_function_sv = "" =>
           Matching(rec.eu_function_en) = {} /\ FunctionOverride(rec.eu_e_code) = ""

\* The records the lookup wrote to a cache tier
Written(l) == {l[k].rec : k \in Events(l, "db_upsert") \cup Events(l, "l1_set")}

\* C27: a lookup that built a record from a live fetch returns it with the
\* fallback applied, and every write of the lookup to a cache tier is of that
\* record, whatever the text generation did.
C27_FallbackRuns ==
    (ByQuery(call) /\ Built(log)) =>
        /\ ~Raising(log)
        /\ IsRecord(ret)
        /\ Filled(ret)
        /\ \A rec \in Written(log) : rec = ret


\* What the tables alone give a record for its Swedish name and function
TableName(rec) == NameOverride(rec.eu_e_code)

TableFunction(rec) ==
    IF Matching(rec.eu_function_en) # {}
    THEN FUNCTION_SV_MAP[CHOOSE i \in Matching(rec.eu_function_en) :
             \A j \in Matching(rec.eu_function_en) : i <= j][2]
    ELSE FunctionOverride(rec.eu_e_code)

\* C28, as claimed: a lookup without translate_sv calls no text generation,
\* and the record it returns and the records it writes have an empty Swedish
\* name and an empty Swedish function.
C28_Claimed ==
    (ByQuery(call) /\ ~call.translate_sv) =>
        /\ Events(log, "llm") = {}
        /\ \A rec \in Written(log) \cup (IF IsRecord(ret) THEN {ret} ELSE {}) :
              rec.eu_official_name_sv = "" /\ rec.eu_function_sv = ""

\* C28, amended: a lookup without translate_sv calls no text generation, and
\* the record it builds from a live fetch, returns and writes has as Swedish
\* name and function what the override tables give for its code and its
\* English function, which is empty only where the tables have nothing.
C28_NotRequested ==
    (ByQuery(call) /\ ~call.translate_sv) =>
        /\ Events(log, "llm") = {}
        /\ ~Raising(log)
        /\ Built(log) =>
              /\ IsRecord(ret)
              /\ ret.eu_official_name_sv = TableName(ret)
              /\ ret.eu_function_sv = TableFunction(ret)
              /\ \A rec \in Written(log) : rec = ret

\* Without translate_sv a record for E300 was fetched, written and returned
\* with the name and the function of the tables
C28_Witness ==
    /\ ByQuery(call)
    /\ ~call.translate_sv
    /\ Built(log)
    /\ Written(log) # {}
    /\ ret.eu_e_code = "E300"
    /\ ret.eu_official_name_sv = "Askorbinsyra"
    /\ ret.eu_function_sv = "Antioxidationsmedel"

-----------------------------------------------------------------------------
(* Concurrent upserts *)

ByWriters(c) == c.op = "db_upsert_concurrent"

\* The place in the log of the last commit for the key
LastCommit(l, key) ==
    CHOOSE i \in 1..Len(l) :
        l[i].eu_e_code = key /\ \A j \in (i + 1)..Len(l) : l[j].eu_e_code # key

\* C29: however the writers interleave, the table never holds two rows for a
\* key, and the row of a key carries, in every column, the values of the one
\* record that was committed last for it; so writers of the same record leave
\* the row that one of them alone leaves.
C29_LastWriterWins ==
    ByWriters(call) =>
        /\ \A r \in db : Cardinality(RowsUnder(db, r.e_code)) = 1
        /\ \A i \in 1..Len(log) :
              /\ RowsUnder(db, log[i].eu_e_code) # {}
              /\ \A r \in RowsUnder(db, log[i].eu_e_code) :
                    SameColumns(log[LastCommit(log, log[i].eu_e_code)], r)
        /\ \A r \in db : \E i \in 1..Len(log) : log[i].eu_e_code = r.e_code

\* Three writers for one key, two of them with different records, all done:
\* one row, that of the last commit
C29_Witness ==
    /\ ByWriters(call)
    /\ \A w \in 1..MaxWriters : call.writers[w].pc = "done"
    /\ \A w \in 1..MaxWriters : call.writers[w].eu.eu_e_code = "E300"
    /\ call.writers[1].eu # call.writers[2].eu
    /\ call.writers[1].eu.eu_function_en # call.writers[2].eu.eu_function_en
    /\ Cardinality(db) = 1
    /\ \A r \in db : SameColumns(log[3], r)

\* A lookup by name alone
ByNameOnly(c) == ByQuery(c) /\ c.e_code = "" /\ c.name # ""

\* The row a by-name answer is read for: the first whose additive_type is
\* substanceFAD, whatever the case of its letters, else the first
Preferred(rows) ==
    IF \E i \in 1..Len(rows) : Lower(Get(rows[i], "additive_type")) = "substancefad"
    THEN rows[CHOOSE i \in 1..Len(rows) :
                /\ Lower(Get(rows[i], "additive_type")) = "substancefad"
                /\ \A j \in 1..(i - 1) :
                       Lower(Get(rows[j], "additive_type")) # "substancefad"]
    ELSE rows[1]

------------------------------------------------------------------------------
(* The two tiers together *)

\* C31: in every state every key of L1 has a row in the durable tier, and the
\* record L1 holds under the key equals that row in the code, the English name
\* and function, the policy id, the raw payload, the Swedish name and function
\* and updated_at.
C31_L1Derived ==
    \A key \in DOMAIN L1_CACHE :
        \E r \in RowsUnder(db, key) : SameColumns(L1_CACHE[key], r)

\* C32: the record a lookup by code returns carries the storage form of the
\* requested code in its code field, whichever row the selector chose and
\* whichever tier served it.
C32_CodeField ==
    (ByCode(call) /\ IsRecord(ret)) => ret.eu_e_code = KeyOf(call)

\* The registry's link in a raw row, as a live fetch reads it
UrlOf(raw) == pick(raw, <<"fip_url", "url">>)

\* C33: the fields enrichment attaches to an item are those of the registry
\* row its record was built from, whichever way the record was obtained (live
\* fetch, L1 or the durable tier): the mirrored fields of the record, and the
\* link eu_fip_url exactly when the row carries one.
C33_SameFields ==
    (ByEnrich(call) /\ ~Raising(log)) =>
        \A i \in 1..Len(call.items) :
            ~IsPdf(call.items[i]) =>
                \A k \in ItemSpan(log, i) :
                    (log[k].ev = "lookup" /\ IsRecord(log[k].ret)) =>
                        /\ \A f \in Mirrored : ret[i][f] = log[k].ret[f]
                        /\ IF UrlOf(log[k].ret.eu_raw) # ""
                           THEN /\ "eu_fip_url" \in DOMAIN ret[i]
                                /\ ret[i].eu_fip_url = UrlOf(log[k].ret.eu_raw)
                           ELSE "eu_fip_url" \notin DOMAIN ret[i]

------------------------------------------------------------------------------
(* The translate flag and the cache *)

\* C34: while a tier holds a fresh record under the code, a lookup of the code
\* makes no registry request and no generation call and returns the stored
\* record, Swedish fields included, whether or not it asks for a translation.
C34_FlagNotKey ==
    [][ByCode(call') =>
        LET key     == KeyOf(call')
            l1Fresh == key \in DOMAIN L1_CACHE
                       /\ FreshStamp(L1_CACHE[key].updated_at, now)
            dbFresh == {r \in RowsUnder(db, key) : FreshStamp(r.updated_at, now)}
        IN  (l1Fresh \/ dbFresh # {}) =>
                /\ Events(log', "http") = {}
                /\ Events(log', "llm") = {}
                /\ ~Raising(log')
                /\ l1Fresh => ret' = L1_CACHE[key]
                /\ ~l1Fresh => \E r \in dbFresh : SameColumns(ret', r)]_vars

\* A lookup that asked for a translation was served a stored record whose
\* Swedish name is empty, without any request
C34_Witness ==
    /\ ByCode(call)
    /\ call.translate_sv
    /\ Events(log, "http") = {}
    /\ Events(log, "llm") = {}
    /\ IsRecord(ret)
    /\ ret.eu_official_name_sv = ""

------------------------------------------------------------------------------
(* The lookup by name and the tiers *)

\* The code columns of a registry row, in the order they are read
CodeOf(raw) ==
    normalize_e_code_storage(
        pick(raw, <<"additive_e_code", "e_code", "E_number", "e_number", "code">>))

\* C35: a lookup by name reads neither tier and makes at least one registry
\* request; when it returns a record whose row has a code, the record is in L1
\* and in the durable tier under that normalized code, in place of whatever was
\* stored there, fresh or not, and every other key is as it was; when the row
\* has no code, or nothing is returned, neither tier is written.
C35_ByNameWrites ==
    [][ByNameOnly(call') =>
        /\ Events(log', "l1_get") = {}
        /\ Events(log', "db_get") = {}
        /\ Requests(log') # <<>>
        /\ IF IsRecord(ret') /\ CodeOf(ret'.eu_raw) # ""
           THEN /\ ret'.eu_e_code = CodeOf(ret'.eu_raw)
                /\ DOMAIN L1_CACHE' = DOMAIN L1_CACHE \cup {ret'.eu_e_code}
                /\ L1_CACHE'[ret'.eu_e_code] = ret'
                /\ \A k \in DOMAIN L1_CACHE :
                      k # ret'.eu_e_code => L1_CACHE'[k] = L1_CACHE[k]
                /\ Cardinality(RowsUnder(db', ret'.eu_e_code)) = 1
                /\ \A r \in RowsUnder(db', ret'.eu_e_code) : SameColumns(ret', r)
                /\ db' \ RowsUnder(db', ret'.eu_e_code) = db \ RowsUnder(db, ret'.eu_e_code)
           ELSE /\ L1_CACHE' = L1_CACHE
                /\ db' = db
                /\ NothingWritten(log')]_vars

\* A second call, by name, one second after the first, left its record stamped
\* with that second in both tiers under the code of its row
C35_Witness ==
    /\ ByNameOnly(call)
    /\ calls = 2
    /\ now = 1
    /\ IsRecord(ret)
    /\ ret.eu_e_code = "E300"
    /\ ret.updated_at = Stamp("naive", 1)
    /\ L1_CACHE["E300"] = ret
    /\ \A r \in RowsUnder(db, "E300") : SameColumns(ret, r)

------------------------------------------------------------------------------
(* What drives the lookup of an item *)

\* The code of an item: its e_code field trimmed, else the E-code found in its
\* trimmed ingredient name, else none
ItemCodeOf(it) ==
    IF Strip(Get(it, "e_code")) # "" THEN Strip(Get(it, "e_code"))
    ELSE extract_e_code_from_text(Strip(Get(it, "ingredient")))

\* C36: every registry request made for an item that has a code asks by code,
\* for a spelling of that code, also when the lookup by code finds nothing; a
\* request by name is made only for an item without a code, for its trimmed
\* ingredient name.
C36_OneDriver ==
    ByEnrich(call) =>
        \A i \in 1..Len(call.items) :
            (Started(log, i) /\ ~IsPdf(call.items[i])) =>
                \A k \in SpanEvents(log, i, "http") :
                    IF ItemCodeOf(call.items[i]) # ""
                    THEN /\ log[k].param = "additive_e_code"
                         /\ \E j \in DOMAIN normalize_e_code_query_variants(
                                   normalize_e_code_storage(ItemCodeOf(call.items[i]))) :
                               normalize_e_code_query_variants(
                                   normalize_e_code_storage(ItemCodeOf(call.items[i])))[j]
                                   = log[k].value
                    ELSE /\ log[k].param = "additive_name"
                         /\ log[k].value = Strip(Get(call.items[i], "ingredient"))

\* An item with a code was left un-enriched by a registry that answers its
\* name, after requests by code only; the item after it was looked up by name
C36_Witness ==
    /\ ByEnrich(call)
    /\ ~Raising(log)
    /\ call.items = <<ItemCode, ItemName>>
    /\ ~ret[1].eu_enriched
    /\ SpanEvents(log, 1, "http") # {}
    /\ ret[2].eu_enriched
    /\ \E k \in SpanEvents(log, 2, "http") : log[k].param = "additive_name"

------------------------------------------------------------------------------
(* The number of registry requests *)

\* The entries of a call over a list: the items of an enrichment, the codes of
\* a bulk refresh
EntriesOf(c) == IF ByEnrich(c) THEN c.items ELSE c.codes

\* C37: a lookup by code makes at most 6 registry requests, at most one JSON
\* and one CSV request for a spelling, and none after reading a fresh record
\* from a tier; a lookup by name makes at most 2; and a call of enrichment or
\* of bulk refresh over n entries makes at most 6 for each entry, so at most
\* 6n, and ends with a value or an exception.
C37_Bounded ==
    /\ ByCode(call) =>
          /\ Len(Requests(log)) <= 6
          /\ \A g, h \in Events(log, "http") :
                (log[g].value = log[h].value /\ log[g].fmt = log[h].fmt) => g = h
          /\ (\E k \in Events(log, "l1_get") \cup Events(log, "db_get") :
                 IsRecord(log[k].found) /\ FreshStamp(log[k].found.updated_at, now))
                => Requests(log) = <<>>
    /\ ByNameOnly(call) => Len(Requests(log)) <= 2
    /\ (ByEnrich(call) \/ ByBulk(call)) =>
          /\ Len(Requests(log)) <= 6 * Len(EntriesOf(call))
          /\ \A i \in 1..Len(EntriesOf(call)) :
                Started(log, i) =>
                    /\ Cardinality(SpanEvents(log, i, "http")) <= 6
                    /\ ReadFresh(log, i, now) => SpanEvents(log, i, "http") = {}
          /\ IF Raising(log) THEN TRUE
             ELSE IF ByEnrich(call) THEN Len(ret) = Len(call.items)
             ELSE ret \in 0..Len(call.codes)

\* A bulk refresh of two codes against a registry that is down made twelve
\* requests and returned 0
C37_Witness ==
    /\ ByBulk(call)
    /\ Len(call.codes) = 2
    /\ Len(Requests(log)) = 12
    /\ ret = 0

------------------------------------------------------------------------------
(* Two lookups of one code at once *)

\* Both threads have left query_eu_additive
BothDone(c) ==
    c.op = "query_concurrent" /\ \A t \in 1..2 : c.threads[t].pc \in {"done", "raised"}

\* C38: when two lookups of a code that no tier holds fresh have both
\* completed, the record L1 holds under the code equals the row of the durable
\* tier under the code.
C38_TiersAgree ==
    (BothDone(call) /\ KeyOf(call) \in DOMAIN L1_CACHE) =>
        \E r \in RowsUnder(db, KeyOf(call)) : SameColumns(L1_CACHE[KeyOf(call)], r)

====
